---- MODULE Spec2Model ----
(***************************************************************************)
(* Model of the Upper Section Strategy (src/decision.py) and of the EMA    *)
(* engine (src/indicators.py).                                             *)
(*                                                                         *)
(* Prices are integers and every derived quantity is an exact rational     *)
(* [n |-> numerator, d |-> denominator] in lowest terms with d > 0.  The   *)
(* pandas "no value" (None / NaN) is the record NaN, whose d is 0.         *)
(* Ratios (TP_RATIO, SL_RATIO, buffer) are integers in percent.            *)
(* Sequences are 1-based: Python position p is index p + 1 here.           *)
(***************************************************************************)
EXTENDS Integers, Sequences, FiniteSets, TLC

\* ------------------------------------------------------------------------
\* Exact arithmetic standing for the 64-bit floats of the program
\* ------------------------------------------------------------------------
Abs(x) == IF x < 0 THEN -x ELSE x

Min(a, b) == IF a < b THEN a ELSE b

RECURSIVE GCD(_, _)
GCD(a, b) == IF b = 0 THEN a ELSE GCD(b, a % b)

\* The rational n/d in lowest terms
Rat(n, d) ==
    LET s == IF d < 0 THEN -1 ELSE 1
        g == GCD(Abs(n), Abs(d))
    IN  [n |-> (s * n) \div g, d |-> (s * d) \div g]

Norm(x) == Rat(x.n, x.d)

NaN == [n |-> 0, d |-> 0]

IsNa(x) == x.d = 0

FromInt(i) == [n |-> i, d |-> 1]

\* Sum, difference and product before reduction to lowest terms
Plus(x, y) == [n |-> x.n * y.d + y.n * x.d, d |-> x.d * y.d]

Minus(x, y) == [n |-> x.n * y.d - y.n * x.d, d |-> x.d * y.d]

Times(x, y) == [n |-> x.n * y.n, d |-> x.d * y.d]

\* Sum and difference in lowest terms, over the least common denominator
RAdd(x, y) ==
    LET g == GCD(x.d, y.d)
    IN  Rat(x.n * (y.d \div g) + y.n * (x.d \div g), (x.d \div g) * y.d)

RSub(x, y) == RAdd(x, [n |-> -(y.n), d |-> y.d])

\* Product in lowest terms, the common factors taken out before multiplying
RMul(x, y) ==
    LET a == Rat(x.n, y.d)
        b == Rat(y.n, x.d)
    IN  [n |-> a.n * b.n, d |-> a.d * b.d]

RDiv(x, y) == RMul(x, Rat(y.d, y.n))

RLess(x, y) == x.n * y.d < y.n * x.d

RLeq(x, y) == x.n * y.d <= y.n * x.d

\* Python round(x, 2): nearest multiple of 1/100, ties to the even one
Round2(x) ==
    LET g == GCD(100, x.d)
        a == (100 \div g) * x.n
        b == x.d \div g
        q == a \div b
        r == a % b
        up == \/ 2 * r > b
              \/ (2 * r = b /\ q % 2 = 1)
    IN  Rat(IF up THEN q + 1 ELSE q, 100)

\* s[lo] + ... + s[hi], summed by halves
RECURSIVE SumRange(_, _, _)
SumRange(s, lo, hi) ==
    IF lo > hi THEN 0
    ELSE IF lo = hi THEN s[lo]
    ELSE LET mid == (lo + hi) \div 2
         IN  SumRange(s, lo, mid) + SumRange(s, mid + 1, hi)

\* ------------------------------------------------------------------------
\* indicators.py
\* ------------------------------------------------------------------------
\* for i in range(period, len(prices)): i is the length of ema_values
RECURSIVE EmaLoop(_, _, _)
EmaLoop(prices, alpha, ema_values) ==
    IF Len(ema_values) >= Len(prices) THEN ema_values
    ELSE LET prev_ema == ema_values[Len(ema_values)]
             curr_val == FromInt(prices[Len(ema_values) + 1])
             curr_ema == Norm(Plus(Times(curr_val, alpha),
                                   Times(prev_ema, Minus(FromInt(1), alpha))))
         IN  EmaLoop(prices, alpha, Append(ema_values, curr_ema))

\* Variant: smoothing factor 2/period instead of 2/(period+1)
compute_ema_series_alpha(prices, period) ==
    IF Len(prices) < period THEN [i \in 1..Len(prices) |-> NaN]
    ELSE LET alpha == Rat(2, period)
             initial_sma == Rat(SumRange(prices, 1, period), period)
             ema_values == Append([i \in 1..(period - 1) |-> NaN], initial_sma)
         IN  EmaLoop(prices, alpha, ema_values)

\* Variant: the seed is the mean of all prices, not of the first period ones
compute_ema_series_seed_all(prices, period) ==
    IF Len(prices) < period THEN [i \in 1..Len(prices) |-> NaN]
    ELSE LET alpha == Rat(2, period + 1)
             initial_sma == Rat(SumRange(prices, 1, Len(prices)), Len(prices))
             ema_values == Append([i \in 1..(period - 1) |-> NaN], initial_sma)
         IN  EmaLoop(prices, alpha, ema_values)

compute_ema_series(prices, period) ==
    IF Len(prices) < period
    THEN [i \in 1..Len(prices) |-> NaN]
    ELSE LET alpha == Rat(2, period + 1)
             initial_sma == Rat(SumRange(prices, 1, period), period)
             ema_values == Append([i \in 1..(period - 1) |-> NaN], initial_sma)
         IN  EmaLoop(prices, alpha, ema_values)

\* compute_ema_series with period <= 0 has no check of its own; what the
\* statements do then (the exception and the line that raises it):
\*   period = -1: alpha = 2.0 / 0 raises ZeroDivisionError (line 11);
\*   otherwise [None]*(period-1) is [], the seed is appended, and the loop
\*   runs i = period, ..., len-1: prices.iloc[i] raises IndexError (line 17)
\*   when -period > len; else len - period + 1 values are collected and
\*   pd.Series(values, index) raises ValueError on the length mismatch
\*   (line 20)
NoError == [type |-> "", line |-> 0]

compute_ema_series_error(prices, period) ==
    IF period >= 1 THEN NoError
    ELSE IF period + 1 = 0 THEN [type |-> "ZeroDivisionError", line |-> 11]
    ELSE IF 0 - period > Len(prices) THEN [type |-> "IndexError", line |-> 17]
    ELSE [type |-> "ValueError", line |-> 20]

\* ------------------------------------------------------------------------
\* DataFrame helpers (pandas positional and label indexing)
\* ------------------------------------------------------------------------
\* s.iloc[-k:] : the last k rows; all rows when k = 0 or k >= len
ILocTail(s, k) ==
    IF k <= 0 \/ k >= Len(s) THEN s ELSE SubSeq(s, Len(s) - k + 1, Len(s))

\* s.iloc[:k] for k >= 0 : the first k rows
ILocHead(s, k) ==
    IF k >= Len(s) THEN s ELSE SubSeq(s, 1, k)

\* df['high'] and df['close'], each as a sequence
Highs(df) == <<>> \o [i \in 1..Len(df) |-> df[i].high]

Closes(df) == <<>> \o [i \in 1..Len(df) |-> df[i].close]

\* Series.max() of a non-empty integer column
SeriesMax(s) ==
    LET values == {s[i] : i \in 1..Len(s)}
    IN  CHOOSE m \in values : \A v \in values : v <= m

\* label in df.index
InIndex(df, label) == \E i \in 1..Len(df) : df[i].timestamp = label

\* df.index.get_loc(label) on an index that holds the label once (1-based)
GetLoc(df, label) == CHOOSE i \in 1..Len(df) : df[i].timestamp = label

\* index.is_monotonic_increasing
IsMonotonicIncreasing(rows) ==
    \A i \in 1..(Len(rows) - 1) : rows[i].timestamp <= rows[i + 1].timestamp

\* The place of row i after sorting: rows with a smaller timestamp come
\* first, and rows with an equal timestamp keep their order
SortedPlace(rows, i) ==
    Cardinality({j \in 1..Len(rows) :
                    \/ rows[j].timestamp < rows[i].timestamp
                    \/ (rows[j].timestamp = rows[i].timestamp /\ j <= i)})

\* Variant: the rows are left in the order of the list
SortIndexSkipped(rows) == rows

\* df.sort_index(): rows in ascending timestamp order; a frame whose index
\* is already monotonic is returned as it is
SortIndex(rows) ==
    IF IsMonotonicIncreasing(rows) THEN rows
    ELSE [p \in 1..Len(rows) |->
            rows[CHOOSE i \in 1..Len(rows) : SortedPlace(rows, i) = p]]

\* ------------------------------------------------------------------------
\* decision.py
\* ------------------------------------------------------------------------
MIN_CANDLES == 35
PEAK_EMA_PERIOD == 15
EMA_ALL == 15
\* Variant: the period of the all pattern used for both patterns
SamePeriodForBoth == EMA_ALL

\* Variant: a long period above the shortest series the guard lets through
LongPeriodAboveGuard == MIN_CANDLES + 1
EMA_ALL_BUT_ONE == 33
BEARISH_WINDOW == 7
WEEKLY_RECENT == 5
WEEKLY_TOTAL == 52
WEEKLY_BUFFER == 20
DAILY_RECENT == 7
DAILY_TOTAL == 200
DAILY_BUFFER == 10
DEFAULT_TP == 10
DEFAULT_SL == 5

NoPeak == -1

None == [signal |-> "None"]

Symbol == "SYM"

\* self.tp_ratio = TP_RATIO if TP_RATIO else 0.10 (a zero ratio is falsy)
InitRatio(configured, default) == IF configured # 0 THEN configured ELSE default

\* config.validate_config, the two ratio checks
ValidateConfigOk(tp, sl) ==
    /\ ~(tp <= 0 \/ tp > 50)
    /\ ~(sl <= 0 \/ sl > 20)

\* Variant: only the first candle that reaches the maximum is kept, as
\* idxmax would, so a tie is not seen
MaxIndicesFirstOnly(subset_df, max_val) ==
    <<SelectSeq(subset_df, LAMBDA c : c.high = max_val)[1]>>

\* subset_highs[subset_highs == max_val].index, as the rows carrying the labels
MaxIndices(subset_df, max_val) ==
    SelectSeq(subset_df, LAMBDA c : c.high = max_val)

\* Variant: the recent window taken one candle too long
NotInRecentWindowPlusOne(subset_df, recent_window, peak_idx) ==
    ~InIndex(ILocTail(subset_df, recent_window + 1), peak_idx)

\* Variant: the recent-window test is missing
NotInRecentWindowNever(subset_df, recent_window, peak_idx) == FALSE

\* peak_idx not in subset_df.iloc[-recent_window:].index
NotInRecentWindow(subset_df, recent_window, peak_idx) ==
    ~InIndex(ILocTail(subset_df, recent_window), peak_idx)

\* Variant: the peak only has to be 10% above the EMA
BelowEmaThresholdTenPercent(high, ema_value) ==
    RLess(FromInt(high), RMul(Rat(11, 10), ema_value))

\* subset_highs[peak_idx] < 1.2 * ema_value
BelowEmaThreshold(high, ema_value) ==
    RLess(FromInt(high), RMul(Rat(6, 5), ema_value))

\* Variant: the earlier portion taken one candle too short
NoBreakoutShortEarlier(subset_highs, subset_closes, mod_window, recent_window) ==
    LET split_point == mod_window - recent_window - 2
        earlier_highs == ILocHead(subset_highs, split_point)
        recent_closes == ILocTail(subset_closes, recent_window + 1)
    IN  /\ split_point > 0
        /\ Len(earlier_highs) > 0
        /\ ~ \E i \in 1..Len(recent_closes) :
                recent_closes[i] > SeriesMax(earlier_highs)

\* The breakout check fails: no close of the last recent_window + 1 candles is
\* above the highest high of the first split_point candles
NoBreakout(subset_highs, subset_closes, mod_window, recent_window) ==
    LET split_point == mod_window - recent_window - 1
        earlier_highs == ILocHead(subset_highs, split_point)
        recent_closes == ILocTail(subset_closes, recent_window + 1)
    IN  /\ split_point > 0
        /\ Len(earlier_highs) > 0
        /\ ~ \E i \in 1..Len(recent_closes) :
                recent_closes[i] > SeriesMax(earlier_highs)

\* Variant: the candle two before the peak is left out of the earlier highs
NoPeakCloseSkipsOne(subset_highs, subset_closes, peak_loc) ==
    LET prev_highs == ILocHead(subset_highs, peak_loc - 3)
    IN  /\ peak_loc > 1
        /\ peak_loc - 3 > 0
        /\ subset_closes[peak_loc] <= SeriesMax(prev_highs)
        /\ subset_closes[peak_loc - 1] <= SeriesMax(prev_highs)

\* The peak candle close check fails (peak_loc is 1-based here)
NoPeakClose(subset_highs, subset_closes, peak_loc) ==
    LET prev_highs == ILocHead(subset_highs, peak_loc - 2)
    IN  /\ peak_loc > 1
        /\ Len(prev_highs) > 0
        /\ subset_closes[peak_loc] <= SeriesMax(prev_highs)
        /\ subset_closes[peak_loc - 1] <= SeriesMax(prev_highs)

\* The return statement _check_single_peak leaves by, and the value returned
check_single_peak_return(df, recent_window, total_window) ==
    LET mod_window == Min(Len(df), total_window)
        subset_df == ILocTail(df, mod_window)
        subset_highs == Highs(subset_df)
        subset_closes == Closes(subset_df)
        max_val == SeriesMax(subset_highs)
        max_indices == MaxIndices(subset_df, max_val)
        peak_idx == max_indices[1].timestamp
        ema_series == compute_ema_series(subset_closes, PEAK_EMA_PERIOD)
        peak_loc == GetLoc(subset_df, peak_idx)
        ema_value == ema_series[peak_loc]
    IN  IF Len(max_indices) # 1 THEN [line |-> 117, value |-> NoPeak]
        ELSE IF NotInRecentWindow(subset_df, recent_window, peak_idx)
             THEN [line |-> 124, value |-> NoPeak]
        ELSE IF IsNa(ema_value) THEN [line |-> 130, value |-> NoPeak]
        ELSE IF BelowEmaThreshold(subset_highs[peak_loc], ema_value)
             THEN [line |-> 135, value |-> NoPeak]
        ELSE IF NoBreakout(subset_highs, subset_closes, mod_window, recent_window)
             THEN [line |-> 146, value |-> NoPeak]
        ELSE IF NoPeakClose(subset_highs, subset_closes, peak_loc)
             THEN [line |-> 158, value |-> NoPeak]
        ELSE [line |-> 160, value |-> peak_idx]

check_single_peak(df, recent_window, total_window) ==
    check_single_peak_return(df, recent_window, total_window).value

\* Variant: the upper-wick condition is missing
CandleStatusNoWick(this_candle, prev_candle, buffer) ==
    IF this_candle.high > prev_candle.high THEN "bullish"
    ELSE IF this_candle.close > this_candle.open THEN "bullish"
    ELSE "bearish"

\* The label of one candle given the candle before it (three OR-ed conditions)
CandleStatus(this_candle, prev_candle, buffer) ==
    IF this_candle.high > prev_candle.high THEN "bullish"
    ELSE IF this_candle.close > this_candle.open THEN "bullish"
    ELSE IF 100 * this_candle.high > (100 + buffer) * this_candle.open THEN "bullish"
    ELSE "bearish"

\* start_idx is a timestamp label, or NoStart for None
NoStart == 0

\* Variant: one bullish candle too many is tolerated
PatternTypeOffByOne(n_bearish, total_count) ==
    IF n_bearish = total_count THEN "all"
    ELSE IF n_bearish >= total_count - 2 THEN "all_but_one"
    ELSE "none"

\* The final if/elif/else over the bearish count
PatternType(n_bearish, total_count) ==
    IF n_bearish = total_count THEN "all"
    ELSE IF n_bearish = total_count - 1 THEN "all_but_one"
    ELSE "none"

\* The statuses list built by the loop of lines 188-222
candle_statuses(df, window, start_idx, buffer) ==
    LET found == start_idx # NoStart /\ InIndex(df, start_idx)
        pos == GetLoc(df, start_idx)
        sub == IF found
               THEN IF pos + 1 > Len(df) THEN <<>>
                    ELSE SubSeq(df, pos + 1, Min(pos + window, Len(df)))
               ELSE ILocTail(df, window)
    IN  <<>> \o [i \in 1..Len(sub) |->
                    IF i = 1
                    THEN IF found THEN CandleStatus(sub[1], df[pos], buffer)
                         ELSE "bearish"
                    ELSE CandleStatus(sub[i], sub[i - 1], buffer)]

check_bearish_pattern(df, window, start_idx, buffer) ==
    LET found == start_idx # NoStart /\ InIndex(df, start_idx)
        pos == GetLoc(df, start_idx)
        sub == IF found
               THEN IF pos + 1 > Len(df) THEN <<>>
                    ELSE SubSeq(df, pos + 1, Min(pos + window, Len(df)))
               ELSE ILocTail(df, window)
        statuses == candle_statuses(df, window, start_idx, buffer)
        n_bearish == Cardinality({i \in 1..Len(statuses) : statuses[i] = "bearish"})
        total_count == Len(statuses)
    IN  IF Len(sub) = 0 THEN "none"
        ELSE PatternType(n_bearish, total_count)

\* Variant: a low equal to the EMA counts as under it
is_low_under_ema_or_equal(df, period) ==
    LET ema_series == compute_ema_series(Closes(df), period)
        last_idx == Len(df)
        curr_low == df[last_idx].low
        curr_ema == ema_series[last_idx]
    IN  IF IsNa(curr_ema) THEN FALSE
        ELSE RLeq(FromInt(curr_low), curr_ema)

is_low_under_ema(df, period) ==
    LET ema_series == compute_ema_series(Closes(df), period)
        last_idx == Len(df)
        curr_low == df[last_idx].low
        curr_ema == ema_series[last_idx]
    IN  IF IsNa(curr_ema) THEN FALSE
        ELSE RLess(FromInt(curr_low), curr_ema)

\* 'decision': f'YES_{ema_period}'
DecisionTag(ema_period) == "YES_" \o ToString(ema_period)

\* Variant: TP and SL prices taken from the entry price rounded to cents
TradeLevelsFromRounded(entry_price, tp_ratio, sl_ratio) ==
    LET tp_price == RMul(Round2(entry_price), Rat(100 + tp_ratio, 100))
        sl_price == RMul(Round2(entry_price), Rat(100 - sl_ratio, 100))
        risk == RSub(entry_price, sl_price)
        reward == RSub(tp_price, entry_price)
        risk_reward == IF risk.n > 0 THEN RDiv(reward, risk) ELSE FromInt(0)
    IN  [entry_price |-> entry_price, tp_price |-> tp_price, sl_price |-> sl_price,
         risk |-> risk, reward |-> reward, risk_reward |-> risk_reward]

\* The unrounded locals of _generate_trade_signal for a defined entry price:
\* TP and SL prices, risk, reward and their ratio
TradeLevels(entry_price, tp_ratio, sl_ratio) ==
    LET tp_price == RMul(entry_price, Rat(100 + tp_ratio, 100))
        sl_price == RMul(entry_price, Rat(100 - sl_ratio, 100))
        risk == RSub(entry_price, sl_price)
        reward == RSub(tp_price, entry_price)
        risk_reward == IF risk.n > 0 THEN RDiv(reward, risk) ELSE FromInt(0)
    IN  [entry_price |-> entry_price, tp_price |-> tp_price, sl_price |-> sl_price,
         risk |-> risk, reward |-> reward, risk_reward |-> risk_reward]

generate_trade_signal(df, symbol, ema_period, tp_ratio, sl_ratio) ==
    LET ema_series == compute_ema_series(Closes(df), ema_period)
        last_idx == Len(df)
        entry_price == ema_series[last_idx]
        current_price == df[last_idx].close
        current_low == df[last_idx].low
        current_high == df[last_idx].high
        levels == TradeLevels(entry_price, tp_ratio, sl_ratio)
        volume == df[last_idx].volume
        peak_high == SeriesMax(Highs(df))
        price_from_peak ==
            IF peak_high > 0
            THEN Rat((current_price - peak_high) * 100, peak_high)
            ELSE FromInt(0)
    IN  IF IsNa(entry_price) THEN None
        ELSE [symbol |-> symbol,
              signal |-> "BUY",
              decision |-> DecisionTag(ema_period),
              entry_price |-> Round2(entry_price),
              current_price |-> Round2(FromInt(current_price)),
              current_low |-> Round2(FromInt(current_low)),
              current_high |-> Round2(FromInt(current_high)),
              tp_price |-> Round2(levels.tp_price),
              sl_price |-> Round2(levels.sl_price),
              tp_ratio |-> tp_ratio,
              sl_ratio |-> sl_ratio,
              ema_period |-> ema_period,
              risk_reward |-> Round2(levels.risk_reward),
              volume |-> volume,
              price_from_peak |-> Round2(price_from_peak),
              peak_high |-> Round2(FromInt(peak_high))]

\* Variant: a current price exactly 10% away from the entry is rejected too
validate_signal_ten_percent_out(signal) ==
    IF RLess(signal.risk_reward, Rat(3, 2)) THEN FALSE
    ELSE IF signal.entry_price.n <= 0 THEN FALSE
    ELSE IF RLeq(Rat(1, 10),
                 RDiv(Rat(Abs(RSub(signal.current_price, signal.entry_price).n),
                          RSub(signal.current_price, signal.entry_price).d),
                      signal.entry_price))
         THEN FALSE
    ELSE TRUE

validate_signal(signal) ==
    IF RLess(signal.risk_reward, Rat(3, 2)) THEN FALSE
    ELSE IF signal.entry_price.n <= 0 THEN FALSE
    ELSE IF RLess(Rat(1, 10),
                  RDiv(Rat(Abs(RSub(signal.current_price, signal.entry_price).n),
                           RSub(signal.current_price, signal.entry_price).d),
                       signal.entry_price))
         THEN FALSE
    ELSE TRUE

\* ------------------------------------------------------------------------
\* Bounds of the checked instances
\* ------------------------------------------------------------------------
\* compute_ema_series called on its own
MaxPrices == 4
MaxPeriod == 4
\* periods below 1 go down to 1 - MaxBelowOne
MaxBelowOne == 3
EmaPrices == {1, 2, 5}

\* analyze: a candle history is one head candle, a flat stretch at BasePrice
\* and at most MaxTail candles drawn from TailCandles
MaxTail == 3
Prefixes == { <<"flat", 31>>, <<"spike", 50>> }

Ohlc(o, h, l, c) == [open |-> o, high |-> h, low |-> l, close |-> c]

FlatCandle == Ohlc(10, 10, 10, 10)
SpikeCandle == Ohlc(10, 20, 10, 10)

TailCandles ==
    { Ohlc(10, 18, 10, 18),   \* breakout candle closing on its high
      Ohlc(10, 18, 10, 10),   \* long upper wick, closes back at the base
      Ohlc(11, 11, 10, 10),   \* red candle pulling back to the base
      Ohlc(11, 11, 11, 11),   \* flat candle above the base
      Ohlc(10, 11, 10, 11),   \* green candle
      Ohlc(10, 12, 10, 10) }  \* wick of 20%: over the daily buffer only

\* _check_bearish_pattern called on its own: the candles of a run
MaxRun == 7
RunCandles ==
    { Ohlc(11, 11, 10, 10),   \* red candle
      Ohlc(10, 11, 10, 11),   \* green candle
      Ohlc(10, 12, 10, 10) }  \* wick of 20%, and a new high after an 11

\* (TP_RATIO, SL_RATIO) as read from the environment, in percent
RatioConfigs == { <<7, 3>>, <<5, 5>>, <<0, 0>>, <<10, -5>> }

Intervals == {"1w", "1d"}

SeqsUpTo(S, k) == UNION {[1..m -> S] : m \in 0..k}

\* The candle dictionaries handed to analyze, timestamps ascending
MakeCandles(head, nflat, tail) ==
    LET shapes == <<head>> \o [i \in 1..nflat |-> FlatCandle] \o tail
    IN  [i \in 1..Len(shapes) |->
            [timestamp |-> i, open |-> shapes[i].open, high |-> shapes[i].high,
             low |-> shapes[i].low, close |-> shapes[i].close, volume |-> 1000]]

\* The histories analyzed: the empty list, one candle, and every prefix
\* followed by every tail
InputSeries ==
    {<<>>, MakeCandles(FlatCandle, 0, <<>>)}
    \cup {MakeCandles(IF prefix[1] = "spike" THEN SpikeCandle ELSE FlatCandle,
                      prefix[2], tail) :
            prefix \in Prefixes, tail \in SeqsUpTo(TailCandles, MaxTail)}

\* A history ending in a breakout candle and up to MaxRedRun red candles
MaxRedRun == 7

LongRunSeries ==
    {MakeCandles(FlatCandle, MIN_CANDLES - 2,
                 <<Ohlc(10, 18, 10, 18)>> \o [i \in 1..k |-> Ohlc(11, 11, 10, 10)]) :
        k \in 0..MaxRedRun}

\* Candle lists that break the ascending-timestamp order: the candles of a
\* history of at least MIN_CANDLES candles, listed in another order
ShuffleShapes ==
    { Ohlc(10, 18, 10, 18), Ohlc(11, 11, 10, 10), Ohlc(10, 11, 10, 11) }

\* At most MaxShuffleTail candles after the flat stretch of a reordered list
MaxShuffleTail == 2

ShuffleBases ==
    {MakeCandles(FlatCandle, MIN_CANDLES - 2, tail) :
        tail \in SeqsUpTo(ShuffleShapes, MaxShuffleTail) \ {<<>>}}

\* Newest first, as FMPAPIClient._convert_to_weekly returns its candles
Reversed(c) == <<>> \o [i \in 1..Len(c) |-> c[Len(c) + 1 - i]]

SwapLastTwo(c) ==
    <<>> \o [i \in 1..Len(c) |->
                IF i = Len(c) THEN c[Len(c) - 1]
                ELSE IF i = Len(c) - 1 THEN c[Len(c)]
                ELSE c[i]]

LastToFront(c) == <<c[Len(c)]>> \o SubSeq(c, 1, Len(c) - 1)

DisorderedSeries ==
    UNION {{Reversed(c), SwapLastTwo(c), LastToFront(c)} : c \in ShuffleBases}

\* Ascending lists in which the candle at position k repeats the timestamp
\* of the candle before it
WithRepeatedTimestamp(c, k) ==
    <<>> \o [i \in 1..Len(c) |->
                IF i = k THEN [c[i] EXCEPT !.timestamp = c[i - 1].timestamp]
                ELSE c[i]]

DuplicateSeries ==
    UNION {{WithRepeatedTimestamp(c, Len(c) - 1), WithRepeatedTimestamp(c, Len(c))} :
              c \in ShuffleBases}

\* ------------------------------------------------------------------------
\* State
\* ------------------------------------------------------------------------
VARIABLES
    TP_RATIO, SL_RATIO,          \* config.py module values
    tp_ratio, sl_ratio,          \* UpperSectionStrategy fields
    candles, interval,           \* arguments of analyze
    pc,                          \* position inside analyze
    df, recent_window, total_window, buffer,
    peak_idx, pattern, ema_period,
    result,                      \* what analyze returned
    stages,                      \* the stages run so far, in order
    ema_prices, ema_period_arg, ema_result, ema_error, ema_pc,
    bp_df, bp_start_idx, bp_buffer, bp_statuses, bp_result, bp_pc,
    lists, lists0,               \* the callers' candle lists, now and at first
    frames,                      \* the locals of each call of analyze in progress
    returned,                    \* the values returned so far, per symbol and interval
    ncalls,
    ADMIN_TOKEN,                 \* the environment of the web service
    bot_instance, bot_running,   \* render_web_wrapper globals
    nrequests, response,         \* requests handled, the last status code
    scan_threads,                \* the Authorization header of each request
                                 \* that started scan_for_signals
    pk_df, pk_recent, pk_total,  \* arguments of _check_single_peak
    pk_result, pk_pc,            \* the return statement taken and its value
    vs_signal, vs_result, vs_pc, \* validate_signal: its argument and its answer
    is_scanning,                 \* StockSignalBot.is_scanning
    scan_pc,                     \* where each thread is in scan_for_signals
    scan_outcome,                \* how the scanning body of each thread ended
    scan_calls, total_scans,     \* calls made so far, StockSignalBot.total_scans
    rq_log,                      \* what the server did at each HTTP attempt
    rq_attempt, rq_pc,           \* the loop variable and position of _make_request
    rq_result, rq_error,         \* the value returned, the exception raised
    cr_now, cr_ticks,            \* datetime.now() in hours, clock steps so far
    sent_signals,                \* CryptoSignalBot.sent_signals
    cr_notified_at,              \* hour of the last notification per symbol
    cr_checks, cr_notifications, \* (symbol, hours since its last notification)
                                 \* of each check and of each notification
    chat_ids,                    \* StockSignalBot.chat_ids
    min_market_cap,              \* StockSignalBot fields, in millions of dollars
    max_market_cap,
    signals_sent,                \* StockSignalBot.signals_sent
    sent_messages,               \* the sendMessage calls made so far
    threads_started,             \* threads started to run scan_for_signals
    last_command, ncommands,     \* the last call of handle_command, their number
    wk_daily,                    \* the argument of _convert_to_weekly
    wk_groups,                   \* the days put into each weekly candle
    wk_weekly, wk_pc             \* the list returned

analyze_vars == <<TP_RATIO, SL_RATIO, tp_ratio, sl_ratio, candles, interval, pc,
                  df, recent_window, total_window, buffer, peak_idx, pattern,
                  ema_period, result, stages>>

ema_vars == <<ema_prices, ema_period_arg, ema_result, ema_error, ema_pc>>

bp_vars == <<bp_df, bp_start_idx, bp_buffer, bp_statuses, bp_result, bp_pc>>

rep_vars == <<lists, lists0, frames, returned, ncalls>>

web_vars == <<ADMIN_TOKEN, bot_instance, bot_running, nrequests, response,
              scan_threads>>

pk_vars == <<pk_df, pk_recent, pk_total, pk_result, pk_pc>>

vs_vars == <<vs_signal, vs_result, vs_pc>>

first_vars == <<analyze_vars, ema_vars, bp_vars, rep_vars, web_vars, pk_vars>>

sc_vars == <<is_scanning, scan_pc, scan_outcome, scan_calls, total_scans>>

rq_vars == <<rq_log, rq_attempt, rq_pc, rq_result, rq_error>>

cr_vars == <<cr_now, cr_ticks, sent_signals, cr_notified_at, cr_checks,
             cr_notifications>>

cm_vars == <<chat_ids, min_market_cap, max_market_cap, signals_sent,
             sent_messages, threads_started, last_command, ncommands>>

wk_vars == <<wk_daily, wk_groups, wk_weekly, wk_pc>>

more_vars == <<vs_vars, sc_vars, rq_vars, cr_vars, cm_vars, wk_vars>>

vars == <<first_vars, more_vars>>

AnalyzeIdle ==
    /\ TP_RATIO = 0 /\ SL_RATIO = 0 /\ tp_ratio = 0 /\ sl_ratio = 0
    /\ candles = <<>> /\ interval = "" /\ pc = "IDLE"
    /\ df = <<>> /\ recent_window = 0 /\ total_window = 0 /\ buffer = 0
    /\ peak_idx = NoPeak /\ pattern = "" /\ ema_period = 0
    /\ result = None /\ stages = <<>>

EmaIdle ==
    /\ ema_prices = <<>> /\ ema_period_arg = 0 /\ ema_result = <<>>
    /\ ema_error = NoError /\ ema_pc = "IDLE"

BpIdle ==
    /\ bp_df = <<>> /\ bp_start_idx = NoStart /\ bp_buffer = 0
    /\ bp_statuses = <<>> /\ bp_result = "" /\ bp_pc = "IDLE"

RepIdle ==
    /\ lists = <<>> /\ lists0 = <<>> /\ frames = <<>>
    /\ returned = <<>> /\ ncalls = 0

\* os.getenv('ADMIN_TOKEN') when the variable is not set
Unset == [set |-> FALSE, value |-> ""]

WebIdle ==
    /\ ADMIN_TOKEN = Unset /\ bot_instance = FALSE /\ bot_running = FALSE
    /\ nrequests = 0 /\ response = 0 /\ scan_threads = <<>>

NoReturn == [line |-> 0, value |-> NoPeak]

PkIdle ==
    /\ pk_df = <<>> /\ pk_recent = 0 /\ pk_total = 0
    /\ pk_result = NoReturn /\ pk_pc = "IDLE"

FirstIdle ==
    /\ AnalyzeIdle /\ EmaIdle /\ BpIdle /\ RepIdle /\ WebIdle /\ PkIdle

VsIdle == vs_signal = <<>> /\ vs_result = FALSE /\ vs_pc = "IDLE"

ScIdle ==
    /\ is_scanning = FALSE /\ scan_pc = <<>> /\ scan_outcome = <<>>
    /\ scan_calls = 0 /\ total_scans = 0

RqIdle ==
    /\ rq_log = <<>> /\ rq_attempt = 0 /\ rq_pc = "IDLE"
    /\ rq_result = "" /\ rq_error = ""

CrIdle ==
    /\ cr_now = 0 /\ cr_ticks = 0 /\ sent_signals = <<>>
    /\ cr_notified_at = <<>> /\ cr_checks = {} /\ cr_notifications = {}

\* no call of handle_command yet
NoCommand == [text |-> "", chat_id |-> <<>>]

CmIdle ==
    /\ chat_ids = <<>> /\ min_market_cap = 0 /\ max_market_cap = 0
    /\ signals_sent = {} /\ sent_messages = <<>> /\ threads_started = 0
    /\ last_command = NoCommand /\ ncommands = 0

WkIdle ==
    /\ wk_daily = <<>> /\ wk_groups = <<>> /\ wk_weekly = <<>>
    /\ wk_pc = "IDLE"

MoreIdle ==
    /\ VsIdle
    /\ ScIdle
    /\ RqIdle
    /\ CrIdle
    /\ CmIdle
    /\ WkIdle

\* ------------------------------------------------------------------------
\* compute_ema_series(prices, period) called on its own
\* ------------------------------------------------------------------------
EmaInit ==
    /\ ema_prices \in SeqsUpTo(EmaPrices, MaxPrices)
    /\ ema_period_arg \in (1 - MaxBelowOne)..MaxPeriod
    /\ ema_result = <<>>
    /\ ema_error = NoError
    /\ ema_pc = "call"
    /\ AnalyzeIdle
    /\ BpIdle
    /\ RepIdle
    /\ WebIdle
    /\ PkIdle
    /\ MoreIdle

EmaCall ==
    /\ ema_pc = "call"
    /\ IF compute_ema_series_error(ema_prices, ema_period_arg) # NoError
       THEN /\ ema_error' = compute_ema_series_error(ema_prices, ema_period_arg)
            /\ ema_pc' = "raised"
            /\ UNCHANGED ema_result
       ELSE /\ ema_result' = compute_ema_series(ema_prices, ema_period_arg)
            /\ ema_pc' = "done"
            /\ UNCHANGED ema_error
    /\ UNCHANGED <<ema_prices, ema_period_arg, analyze_vars, bp_vars, rep_vars, web_vars, pk_vars, more_vars>>

EmaNext == EmaCall

SpecEma == EmaInit /\ [][EmaNext]_vars

\* ------------------------------------------------------------------------
\* _check_bearish_pattern(df, 7, start_idx, buffer) called on its own: df is
\* one flat candle, the peak candle and a run of at most MaxRun candles
\* ------------------------------------------------------------------------
PeakCandle == Ohlc(10, 18, 10, 18)

\* The timestamp of the peak candle in bp_df, and a timestamp bp_df lacks
PeakLabel == Len(<<FlatCandle, PeakCandle>>)

MissingLabel == PeakLabel + MaxRun + 90

BpInit ==
    /\ \E run \in SeqsUpTo(RunCandles, MaxRun) :
        bp_df = MakeCandles(FlatCandle, 0, <<PeakCandle>> \o run)
    /\ bp_start_idx \in {PeakLabel, NoStart, MissingLabel}
    /\ bp_buffer \in {WEEKLY_BUFFER, DAILY_BUFFER}
    /\ bp_statuses = <<>>
    /\ bp_result = ""
    /\ bp_pc = "call"
    /\ AnalyzeIdle
    /\ EmaIdle
    /\ RepIdle
    /\ WebIdle
    /\ PkIdle
    /\ MoreIdle

BpCall ==
    /\ bp_pc = "call"
    /\ bp_statuses' = candle_statuses(bp_df, BEARISH_WINDOW, bp_start_idx, bp_buffer)
    /\ bp_result' = check_bearish_pattern(bp_df, BEARISH_WINDOW, bp_start_idx, bp_buffer)
    /\ bp_pc' = "done"
    /\ UNCHANGED <<bp_df, bp_start_idx, bp_buffer, analyze_vars, ema_vars, rep_vars, web_vars, pk_vars, more_vars>>

BpNext == BpCall

SpecBearish == BpInit /\ [][BpNext]_vars

\* ------------------------------------------------------------------------
\* UpperSectionStrategy() followed by one call analyze(candles, symbol, interval)
\* ------------------------------------------------------------------------
Init ==
    /\ \E cfg \in RatioConfigs :
        /\ TP_RATIO = cfg[1]
        /\ SL_RATIO = cfg[2]
        /\ tp_ratio = InitRatio(cfg[1], DEFAULT_TP)
        /\ sl_ratio = InitRatio(cfg[2], DEFAULT_SL)
    /\ candles \in InputSeries \cup LongRunSeries \cup DisorderedSeries
                    \cup DuplicateSeries
    /\ interval \in Intervals
    /\ pc = "START"
    /\ df = <<>> /\ recent_window = 0 /\ total_window = 0 /\ buffer = 0
    /\ peak_idx = NoPeak /\ pattern = "" /\ ema_period = 0
    /\ result = None /\ stages = <<>>
    /\ EmaIdle
    /\ BpIdle
    /\ RepIdle
    /\ WebIdle
    /\ PkIdle
    /\ MoreIdle

\* Variant: the length guard is missing
NoLengthGuard(c) == FALSE

\* if not candles or len(candles) < 35
InsufficientData(c) == Len(c) = 0 \/ Len(c) < MIN_CANDLES

\* lines 32-50: length guard, DataFrame construction, window parameters
Start ==
    /\ pc = "START"
    /\ IF InsufficientData(candles)
       THEN /\ pc' = "DONE"
            /\ result' = None
            /\ UNCHANGED <<df, recent_window, total_window, buffer>>
       ELSE IF Len(candles) = 0
       THEN \* pd.DataFrame([]) has no 'timestamp' column: KeyError
            /\ pc' = "RAISED"
            /\ UNCHANGED <<result, df, recent_window, total_window, buffer>>
       ELSE /\ df' = SortIndex(candles)
            /\ recent_window' = IF interval = "1w" THEN WEEKLY_RECENT ELSE DAILY_RECENT
            /\ total_window' = IF interval = "1w" THEN WEEKLY_TOTAL ELSE DAILY_TOTAL
            /\ buffer' = IF interval = "1w" THEN WEEKLY_BUFFER ELSE DAILY_BUFFER
            /\ pc' = "PEAK_SEARCH"
            /\ UNCHANGED result
    /\ UNCHANGED <<TP_RATIO, SL_RATIO, tp_ratio, sl_ratio, candles, interval,
                   peak_idx, pattern, ema_period, stages, ema_vars, bp_vars, rep_vars, web_vars, pk_vars, more_vars>>

\* ema_series[peak_idx] is a Series, not a number, when the label peak_idx
\* occurs more than once in the subset: the `or` and `if` of line 128 then
\* raise ValueError (the truth value of a Series is ambiguous)
EmaLookupRaises(d, recent, total) ==
    LET subset_df == ILocTail(d, Min(Len(d), total))
        max_indices == MaxIndices(subset_df, SeriesMax(Highs(subset_df)))
    IN  /\ Len(max_indices) = 1
        /\ InIndex(ILocTail(subset_df, recent), max_indices[1].timestamp)
        /\ Cardinality({i \in 1..Len(subset_df) :
                subset_df[i].timestamp = max_indices[1].timestamp}) > 1

\* Variant: the return after a failed peak search is missing
PeakSearchNoReturn ==
    /\ pc = "PEAK_SEARCH"
    /\ peak_idx' = check_single_peak(df, recent_window, total_window)
    /\ pc' = "BEARISH_CLASSIFY"
    /\ stages' = Append(stages, "PEAK_SEARCH")
    /\ UNCHANGED <<TP_RATIO, SL_RATIO, tp_ratio, sl_ratio, candles, interval,
                   df, recent_window, total_window, buffer, pattern, ema_period,
                   result, ema_vars, bp_vars, rep_vars, web_vars, pk_vars, more_vars>>

\* lines 52-58
PeakSearch ==
    /\ pc = "PEAK_SEARCH"
    /\ IF EmaLookupRaises(df, recent_window, total_window)
       THEN pc' = "RAISED" /\ UNCHANGED <<peak_idx, result>>
       ELSE LET found == check_single_peak(df, recent_window, total_window)
            IN  /\ peak_idx' = found
                /\ IF found = NoPeak
                   THEN pc' = "DONE" /\ result' = None
                   ELSE pc' = "BEARISH_CLASSIFY" /\ UNCHANGED result
    /\ stages' = Append(stages, "PEAK_SEARCH")
    /\ UNCHANGED <<TP_RATIO, SL_RATIO, tp_ratio, sl_ratio, candles, interval,
                   df, recent_window, total_window, buffer, pattern, ema_period,
                   ema_vars, bp_vars, rep_vars, web_vars, pk_vars, more_vars>>

\* lines 60-75
BearishClassify ==
    /\ pc = "BEARISH_CLASSIFY"
    /\ LET p == check_bearish_pattern(df, BEARISH_WINDOW, peak_idx, buffer)
       IN  /\ pattern' = p
           /\ IF p = "none"
              THEN pc' = "DONE" /\ result' = None /\ UNCHANGED ema_period
              ELSE IF p = "all"
              THEN pc' = "EMA_CHECK" /\ ema_period' = EMA_ALL /\ UNCHANGED result
              ELSE IF p = "all_but_one"
              THEN pc' = "EMA_CHECK" /\ ema_period' = EMA_ALL_BUT_ONE
                   /\ UNCHANGED result
              ELSE pc' = "DONE" /\ result' = None /\ UNCHANGED ema_period
    /\ stages' = Append(stages, "BEARISH_CLASSIFY")
    /\ UNCHANGED <<TP_RATIO, SL_RATIO, tp_ratio, sl_ratio, candles, interval,
                   df, recent_window, total_window, buffer, peak_idx, ema_vars, bp_vars, rep_vars, web_vars, pk_vars, more_vars>>

\* lines 77-82
EmaCheck ==
    /\ pc = "EMA_CHECK"
    /\ IF ~is_low_under_ema(df, ema_period)
       THEN pc' = "DONE" /\ result' = None
       ELSE pc' = "SIGNAL_BUILD" /\ UNCHANGED result
    /\ stages' = Append(stages, "EMA_CHECK")
    /\ UNCHANGED <<TP_RATIO, SL_RATIO, tp_ratio, sl_ratio, candles, interval,
                   df, recent_window, total_window, buffer, peak_idx, pattern,
                   ema_period, ema_vars, bp_vars, rep_vars, web_vars, pk_vars, more_vars>>

\* signal['pattern'], signal['peak_index'], signal['interval'] (lines 87-90)
WithAnalysisFields(signal, p, peak, intv) ==
    [k \in DOMAIN signal \cup {"pattern", "peak_index", "interval"} |->
        IF k = "pattern" THEN p
        ELSE IF k = "peak_index" THEN peak
        ELSE IF k = "interval" THEN intv
        ELSE signal[k]]

\* lines 84-92
SignalBuild ==
    /\ pc = "SIGNAL_BUILD"
    /\ LET signal == generate_trade_signal(df, Symbol, ema_period, tp_ratio, sl_ratio)
       IN  result' = IF signal # None
                     THEN WithAnalysisFields(signal, pattern, peak_idx, interval)
                     ELSE None
    /\ pc' = "DONE"
    /\ stages' = Append(stages, "SIGNAL_BUILD")
    /\ UNCHANGED <<TP_RATIO, SL_RATIO, tp_ratio, sl_ratio, candles, interval,
                   df, recent_window, total_window, buffer, peak_idx, pattern,
                   ema_period, ema_vars, bp_vars, rep_vars, web_vars, pk_vars, more_vars>>

Next == Start \/ PeakSearch \/ BearishClassify \/ EmaCheck \/ SignalBuild

Spec == Init /\ [][Next]_vars

\* ------------------------------------------------------------------------
\* One strategy object used for several calls of analyze, on the candle
\* lists of two symbols, the calls interleaved stage by stage
\* ------------------------------------------------------------------------
MaxCalls == 2

Threads == {"t1", "t2"}

Stocks == {"A", "B"}

SignalSeries ==
    MakeCandles(FlatCandle, MIN_CANDLES - 2, <<Ohlc(10, 18, 10, 18), Ohlc(11, 11, 10, 10)>>)

\* a list for which a signal is returned, in ascending order and newest
\* first, and a list without a peak
RepeatSeries ==
    { SignalSeries,
      Reversed(SignalSeries),
      MakeCandles(FlatCandle, MIN_CANDLES - 2, <<Ohlc(10, 11, 10, 11), Ohlc(11, 11, 10, 10)>>) }

RepeatConfigs == { <<7, 3>> }

IdleFrame ==
    [pc |-> "IDLE", symbol |-> "", interval |-> "", df |-> <<>>,
     recent_window |-> 0, total_window |-> 0, buffer |-> 0,
     peak_idx |-> NoPeak, pattern |-> "", ema_period |-> 0, result |-> None]

\* One stage of a call of analyze whose locals are f, on the list c and the
\* strategy fields tp and sl: the locals after the stage
NextFrame(f, c, tp, sl) ==
          IF f.pc = "START"
          THEN IF InsufficientData(c) THEN [f EXCEPT !.pc = "DONE", !.result = None]
               ELSE IF Len(c) = 0 THEN [f EXCEPT !.pc = "RAISED"]
               ELSE [f EXCEPT !.df = SortIndex(c),
                              !.recent_window = IF f.interval = "1w" THEN WEEKLY_RECENT ELSE DAILY_RECENT,
                              !.total_window = IF f.interval = "1w" THEN WEEKLY_TOTAL ELSE DAILY_TOTAL,
                              !.buffer = IF f.interval = "1w" THEN WEEKLY_BUFFER ELSE DAILY_BUFFER,
                              !.pc = "PEAK_SEARCH"]
          ELSE IF f.pc = "PEAK_SEARCH"
          THEN IF EmaLookupRaises(f.df, f.recent_window, f.total_window)
               THEN [f EXCEPT !.pc = "RAISED"]
               ELSE LET found == check_single_peak(f.df, f.recent_window, f.total_window)
                    IN  [f EXCEPT !.peak_idx = found,
                                  !.pc = IF found = NoPeak THEN "DONE" ELSE "BEARISH_CLASSIFY",
                                  !.result = None]
          ELSE IF f.pc = "BEARISH_CLASSIFY"
          THEN LET p == check_bearish_pattern(f.df, BEARISH_WINDOW, f.peak_idx, f.buffer)
               IN  IF p = "all"
                   THEN [f EXCEPT !.pattern = p, !.ema_period = EMA_ALL, !.pc = "EMA_CHECK"]
                   ELSE IF p = "all_but_one"
                   THEN [f EXCEPT !.pattern = p, !.ema_period = EMA_ALL_BUT_ONE,
                                  !.pc = "EMA_CHECK"]
                   ELSE [f EXCEPT !.pattern = p, !.pc = "DONE", !.result = None]
          ELSE IF f.pc = "EMA_CHECK"
          THEN IF ~is_low_under_ema(f.df, f.ema_period)
               THEN [f EXCEPT !.pc = "DONE", !.result = None]
               ELSE [f EXCEPT !.pc = "SIGNAL_BUILD"]
          ELSE LET signal == generate_trade_signal(f.df, f.symbol, f.ema_period, tp, sl)
               IN  [f EXCEPT !.pc = "DONE",
                             !.result = IF signal # None
                                        THEN WithAnalysisFields(signal, f.pattern,
                                                                f.peak_idx, f.interval)
                                        ELSE None]

\* Variant: the list is sorted in place (candles.sort) before the frame is built
AnalyzeStepSortsList(f, c, tp, sl) ==
    [frame |-> NextFrame(f, c, tp, sl),
     candles |-> IF f.pc = "START" THEN SortIndex(c) ELSE c,
     tp_ratio |-> tp, sl_ratio |-> sl]

\* The stage together with what it leaves in the caller's list and in the
\* strategy fields: lines 32-92 assign to neither
AnalyzeStep(f, c, tp, sl) ==
    [frame |-> NextFrame(f, c, tp, sl),
     candles |-> c, tp_ratio |-> tp, sl_ratio |-> sl]

RepeatInit ==
    /\ \E cfg \in RepeatConfigs :
        /\ TP_RATIO = cfg[1]
        /\ SL_RATIO = cfg[2]
        /\ tp_ratio = InitRatio(cfg[1], DEFAULT_TP)
        /\ sl_ratio = InitRatio(cfg[2], DEFAULT_SL)
    /\ lists \in [Stocks -> RepeatSeries]
    /\ lists0 = lists
    /\ frames = [t \in Threads |-> IdleFrame]
    /\ returned = [k \in Stocks \X Intervals |-> {}]
    /\ ncalls = 0
    /\ candles = <<>> /\ interval = "" /\ pc = "IDLE"
    /\ df = <<>> /\ recent_window = 0 /\ total_window = 0 /\ buffer = 0
    /\ peak_idx = NoPeak /\ pattern = "" /\ ema_period = 0
    /\ result = None /\ stages = <<>>
    /\ EmaIdle
    /\ BpIdle
    /\ WebIdle
    /\ PkIdle
    /\ MoreIdle

RepeatUnchanged ==
    UNCHANGED <<TP_RATIO, SL_RATIO, candles, interval, pc, df, recent_window,
                total_window, buffer, peak_idx, pattern, ema_period, result,
                stages, lists0, ema_vars, bp_vars, web_vars,
                pk_vars, more_vars>>

\* signal = self.strategy.analyze(weekly_data, symbol): a call begins
CallAnalyze(t, symbol, intv) ==
    /\ frames[t].pc = "IDLE"
    /\ ncalls < MaxCalls
    /\ ncalls' = ncalls + 1
    /\ frames' = [frames EXCEPT ![t] =
                    [IdleFrame EXCEPT !.pc = "START", !.symbol = symbol,
                                      !.interval = intv]]
    /\ UNCHANGED <<tp_ratio, sl_ratio, lists, returned>>
    /\ RepeatUnchanged

\* the call of thread t runs its next stage
StepAnalyze(t) ==
    /\ frames[t].pc \in {"START", "PEAK_SEARCH", "BEARISH_CLASSIFY", "EMA_CHECK",
                         "SIGNAL_BUILD"}
    /\ \E after \in {AnalyzeStep(frames[t], lists[frames[t].symbol], tp_ratio, sl_ratio)} :
           /\ frames' = [frames EXCEPT ![t] = after.frame]
           /\ lists' = [lists EXCEPT ![frames[t].symbol] = after.candles]
           /\ tp_ratio' = after.tp_ratio
           /\ sl_ratio' = after.sl_ratio
    /\ UNCHANGED <<returned, ncalls>>
    /\ RepeatUnchanged

\* the call returns (or its exception reaches the caller)
ReturnAnalyze(t) ==
    /\ frames[t].pc \in {"DONE", "RAISED"}
    /\ returned' =
          [returned EXCEPT ![<<frames[t].symbol, frames[t].interval>>] =
              @ \cup {IF frames[t].pc = "RAISED" THEN [signal |-> "RAISED"]
                      ELSE frames[t].result}]
    /\ frames' = [frames EXCEPT ![t] = IdleFrame]
    /\ UNCHANGED <<tp_ratio, sl_ratio, lists, ncalls>>
    /\ RepeatUnchanged

RepeatNext ==
    \E t \in Threads :
        \/ \E symbol \in Stocks, intv \in Intervals : CallAnalyze(t, symbol, intv)
        \/ StepAnalyze(t)
        \/ ReturnAnalyze(t)

SpecRepeat == RepeatInit /\ [][RepeatNext]_vars

\* ------------------------------------------------------------------------
\* render_web_wrapper: POST /trigger-scan
\* ------------------------------------------------------------------------
MaxRequests == 3

\* ADMIN_TOKEN in the environment: not set, set to the empty string, set
AdminTokens == {Unset, [set |-> TRUE, value |-> ""], [set |-> TRUE, value |-> "s3cret"]}

\* request.headers.get('Authorization'): None when the header is absent
NoHeader == [present |-> FALSE, value |-> ""]

Header(v) == [present |-> TRUE, value |-> v]

AuthHeaders ==
    {NoHeader, Header("Bearer s3cret"), Header("Bearer wrong"), Header("s3cret"),
     Header("Bearer ")}

\* the truth value of expected_token: None and '' are falsy
Truthy(token) == token.set /\ token.value # ""

\* f"Bearer {expected_token}"
BearerOf(token) == Header("Bearer " \o token.value)

WebInit ==
    /\ ADMIN_TOKEN \in AdminTokens
    /\ bot_instance = FALSE /\ bot_running = FALSE
    /\ nrequests = 0 /\ response = 0 /\ scan_threads = <<>>
    /\ AnalyzeIdle
    /\ EmaIdle
    /\ BpIdle
    /\ RepIdle
    /\ PkIdle
    /\ MoreIdle

WebUnchanged ==
    UNCHANGED <<ADMIN_TOKEN, analyze_vars, ema_vars, bp_vars, rep_vars, pk_vars,
                more_vars>>

\* run_bot: the bot is constructed and marked running
RunBot ==
    /\ ~bot_instance
    /\ bot_instance' = TRUE
    /\ bot_running' = TRUE
    /\ UNCHANGED <<nrequests, response, scan_threads>>
    /\ WebUnchanged

\* run_bot, except branch: bot_instance.run() raised
BotCrashed ==
    /\ bot_running
    /\ bot_running' = FALSE
    /\ UNCHANGED <<bot_instance, nrequests, response, scan_threads>>
    /\ WebUnchanged

\* trigger_scan for a request with Authorization header auth_token
TriggerScan(auth_token) ==
    /\ nrequests < MaxRequests
    /\ nrequests' = nrequests + 1
    /\ IF Truthy(ADMIN_TOKEN) /\ auth_token # BearerOf(ADMIN_TOKEN)
       THEN response' = 401 /\ UNCHANGED scan_threads
       ELSE IF ~bot_instance \/ ~bot_running
       THEN response' = 503 /\ UNCHANGED scan_threads
       ELSE response' = 200 /\ scan_threads' = Append(scan_threads, auth_token)
    /\ UNCHANGED <<bot_instance, bot_running>>
    /\ WebUnchanged

WebNext ==
    \/ RunBot
    \/ BotCrashed
    \/ \E auth_token \in AuthHeaders : TriggerScan(auth_token)

SpecWeb == WebInit /\ [][WebNext]_vars

\* ---------------------------------------------------------------------------
\* _check_single_peak called on its own (decision.py 94-160)
\* ---------------------------------------------------------------------------

MaxPeakTail == 3

\* First candle of a frame: flat, a high of 13 on a base of 10, a low base
LedgeCandle == Ohlc(10, 13, 10, 10)
LowCandle == Ohlc(2, 2, 2, 2)
PeakHeads == {FlatCandle, LedgeCandle, LowCandle}

\* Number of flat candles between the first candle and the last few
PeakFlats == {0, 11, 13, 15, 16}

PeakShapes ==
    { Ohlc(10, 18, 10, 18),   \* breakout candle closing on its high
      Ohlc(10, 18, 10, 10),   \* long upper wick, closes back at the base
      Ohlc(10, 12, 10, 10),   \* wick of exactly 20%
      Ohlc(10, 11, 10, 11),   \* green candle
      FlatCandle }

\* (recent_window, total_window): the weekly and the daily configuration, a
\* short total window that cuts the frame (with a recent window of one and of
\* two candles), a recent window as long as the frame
PeakWindows ==
    { <<WEEKLY_RECENT, WEEKLY_TOTAL>>, <<DAILY_RECENT, DAILY_TOTAL>>,
      <<1, 18>>, <<2, 18>>, <<16, 17>> }

PeakFrames ==
    { MakeCandles(head, nflat, tail) :
        head \in PeakHeads, nflat \in PeakFlats,
        tail \in SeqsUpTo(PeakShapes, MaxPeakTail) }

PkInit ==
    /\ pk_df \in PeakFrames
    /\ \E w \in PeakWindows : pk_recent = w[1] /\ pk_total = w[2]
    /\ pk_result = NoReturn
    /\ pk_pc = "call"
    /\ AnalyzeIdle
    /\ EmaIdle
    /\ BpIdle
    /\ RepIdle
    /\ WebIdle
    /\ MoreIdle

PkCall ==
    /\ pk_pc = "call"
    /\ pk_result' = check_single_peak_return(pk_df, pk_recent, pk_total)
    /\ pk_pc' = "done"
    /\ UNCHANGED <<pk_df, pk_recent, pk_total, analyze_vars, ema_vars, bp_vars,
                   rep_vars, web_vars, more_vars>>

PkNext == PkCall

SpecPeak == PkInit /\ [][PkNext]_vars

\* ---------------------------------------------------------------------------
\* validate_signal called on a signal record (decision.py 319-345)
\* ---------------------------------------------------------------------------

\* risk_reward, entry_price and current_price of the records tried, two symbols
GateRiskRewards == {FromInt(0), FromInt(1), Rat(149, 100), Rat(3, 2), FromInt(2)}
GateEntries == {FromInt(0 - 1), FromInt(0), FromInt(1), FromInt(10), Rat(1088, 100)}
GateCurrents == {FromInt(1), FromInt(9), FromInt(10), FromInt(11), FromInt(12)}

GateSignals ==
    { [symbol |-> sym, signal |-> "BUY", risk_reward |-> rr,
       entry_price |-> e, current_price |-> cur] :
         sym \in Stocks, rr \in GateRiskRewards, e \in GateEntries,
         cur \in GateCurrents }

VsInit ==
    /\ vs_signal \in GateSignals
    /\ vs_result = FALSE
    /\ vs_pc = "call"
    /\ FirstIdle
    /\ ScIdle
    /\ RqIdle
    /\ CrIdle
    /\ CmIdle
    /\ WkIdle

VsCall ==
    /\ vs_pc = "call"
    /\ vs_result' = validate_signal(vs_signal)
    /\ vs_pc' = "done"
    /\ UNCHANGED <<vs_signal, first_vars, sc_vars, rq_vars, cr_vars, cm_vars,
                   wk_vars>>

VsNext == VsCall

SpecValidate == VsInit /\ [][VsNext]_vars

\* ---------------------------------------------------------------------------
\* StockSignalBot.scan_for_signals run by the scheduler loop, by a thread of
\* the /scan command and by a thread of POST /trigger-scan
\* (stock_signal_bot.py 447-532, 215-221, 713-736; render_web_wrapper.py 102)
\* ---------------------------------------------------------------------------
MaxScanCalls == 4

ScanThreads == {"scheduler", "command", "trigger"}

ScanOutcomes == {"summary", "no_stocks", "exception"}

ScInit ==
    /\ is_scanning = FALSE
    /\ scan_pc = [t \in ScanThreads |-> "idle"]
    /\ scan_outcome = [t \in ScanThreads |-> ""]
    /\ scan_calls = 0
    /\ total_scans = 0
    /\ FirstIdle
    /\ VsIdle
    /\ RqIdle
    /\ CrIdle
    /\ CmIdle
    /\ WkIdle

ScUnchanged ==
    UNCHANGED <<first_vars, vs_vars, rq_vars, cr_vars, cm_vars, wk_vars>>

\* The caller decides to scan: the scheduler loop (line 729) and the /scan
\* command (line 216) look at is_scanning first, /trigger-scan does not
CallScan(t) ==
    /\ scan_pc[t] = "idle"
    /\ scan_calls < MaxScanCalls
    /\ scan_calls' = scan_calls + 1
    /\ IF t \in {"scheduler", "command"} /\ is_scanning
       THEN UNCHANGED scan_pc
       ELSE scan_pc' = [scan_pc EXCEPT ![t] = "line_448"]
    /\ UNCHANGED <<is_scanning, scan_outcome, total_scans>>
    /\ ScUnchanged

\* if self.is_scanning: return
CheckScanning(t) ==
    /\ scan_pc[t] = "line_448"
    /\ scan_pc' = [scan_pc EXCEPT ![t] = IF is_scanning THEN "idle" ELSE "line_452"]
    /\ UNCHANGED <<is_scanning, scan_outcome, scan_calls, total_scans>>
    /\ ScUnchanged

\* self.is_scanning = True
SetScanning(t) ==
    /\ scan_pc[t] = "line_452"
    /\ is_scanning' = TRUE
    /\ scan_pc' = [scan_pc EXCEPT ![t] = "body"]
    /\ scan_outcome' = [scan_outcome EXCEPT ![t] = ""]
    /\ UNCHANGED <<scan_calls, total_scans>>
    /\ ScUnchanged

\* The try block: it ends with the summary, with the early return for no
\* stocks, or in the except clause
ScanBody(t) ==
    /\ scan_pc[t] = "body"
    /\ \E outcome \in ScanOutcomes :
          scan_outcome' = [scan_outcome EXCEPT ![t] = outcome]
    /\ total_scans' = total_scans + 1
    /\ scan_pc' = [scan_pc EXCEPT ![t] = "finally"]
    /\ UNCHANGED <<is_scanning, scan_calls>>
    /\ ScUnchanged

\* finally: self.is_scanning = False
ScanFinally(t) ==
    /\ scan_pc[t] = "finally"
    /\ is_scanning' = FALSE
    /\ scan_pc' = [scan_pc EXCEPT ![t] = "idle"]
    /\ UNCHANGED <<scan_outcome, scan_calls, total_scans>>
    /\ ScUnchanged

ScNext ==
    \E t \in ScanThreads :
        \/ CallScan(t)
        \/ CheckScanning(t)
        \/ SetScanning(t)
        \/ ScanBody(t)
        \/ ScanFinally(t)

SpecScan == ScInit /\ [][ScNext]_vars

\* ---------------------------------------------------------------------------
\* FMPAPIClient._make_request (fmp_api.py 28-75), one step per HTTP attempt
\* ---------------------------------------------------------------------------
max_retries == 6

\* What session.get and response.json can do at one attempt: a status code,
\* a 200 whose body is not JSON (json() raises a RequestException subclass in
\* requests 2.27 and later, a plain ValueError before), a timeout, another
\* request error
ServerOutcomes ==
    {"200", "200_bad_json", "200_bad_json_value_error", "429", "503", "404",
     "timeout", "connection_error"}

\* Variant: every status that is neither 429 nor a server error returns
StatusReturnsUnlessRetried(outcome) == outcome \in {"200", "404"}

\* response.status_code == 200 and response.json() gives the data
StatusReturns(outcome) == outcome = "200"

\* 429 and 500, 502, 503, 504, and a timeout: sleep and continue
SleepAndContinue(outcome) == outcome \in {"429", "503", "timeout"}

RqInit ==
    /\ rq_log = <<>>
    /\ rq_attempt = 0
    /\ rq_pc = "loop"
    /\ rq_result = ""
    /\ rq_error = ""
    /\ FirstIdle
    /\ VsIdle
    /\ ScIdle
    /\ CrIdle
    /\ CmIdle
    /\ WkIdle

\* One pass of the for loop; when the pass was the last one and ended in
\* continue, the raise after the loop follows
Attempt(outcome) ==
    /\ rq_pc = "loop"
    /\ rq_attempt < max_retries
    /\ rq_log' = Append(rq_log, outcome)
    /\ IF StatusReturns(outcome)
       THEN /\ rq_pc' = "returned" /\ rq_result' = "data"
            /\ UNCHANGED <<rq_attempt, rq_error>>
       ELSE IF outcome = "200_bad_json_value_error"
       THEN /\ rq_pc' = "raised" /\ rq_error' = "ValueError"
            /\ UNCHANGED <<rq_attempt, rq_result>>
       ELSE IF SleepAndContinue(outcome)
       THEN IF rq_attempt + 1 < max_retries
            THEN /\ rq_attempt' = rq_attempt + 1
                 /\ UNCHANGED <<rq_pc, rq_result, rq_error>>
            ELSE /\ rq_attempt' = rq_attempt + 1
                 /\ rq_pc' = "raised" /\ rq_error' = "Exception"
                 /\ UNCHANGED rq_result
       ELSE \* a RequestException: raised at line 57, or by get or json
            IF rq_attempt < max_retries - 1
            THEN /\ rq_attempt' = rq_attempt + 1
                 /\ UNCHANGED <<rq_pc, rq_result, rq_error>>
            ELSE /\ rq_pc' = "raised" /\ rq_error' = "RequestException"
                 /\ UNCHANGED <<rq_attempt, rq_result>>
    /\ UNCHANGED <<first_vars, vs_vars, sc_vars, cr_vars, cm_vars, wk_vars>>

RqNext == \E outcome \in ServerOutcomes : Attempt(outcome)

SpecRequest == RqInit /\ [][RqNext]_vars

\* ---------------------------------------------------------------------------
\* CryptoSignalBot.scan_all_symbols run again and again while the clock moves
\* (crypto_signal_bot.py 66-68, 220-274); time is counted in whole hours
\* ---------------------------------------------------------------------------
signal_expiry_hours == 168

MaxTicks == 4

\* The clock moves by an hour (the schedule) or by 167 hours (a long pause)
ClockSteps == {1, signal_expiry_hours - 1}

CryptoSymbols == {"BTCUSDT", "ETHUSDT"}

\* get_filtered_symbols: a list that may name a symbol twice
SymbolLists == SeqsUpTo(CryptoSymbols, 3) \ {<<>>}

NeverSent == 0 - 1

\* Variant: a symbol counts as fresh one hour too short
StillFreshOneHourShort(hours_passed) == hours_passed < signal_expiry_hours - 1

\* hours_passed < self.signal_expiry_hours
StillFresh(hours_passed) == hours_passed < signal_expiry_hours

\* The for loop of scan_all_symbols from position i on; buys are the symbols
\* for which check_single_symbol returns a signal during this scan
RECURSIVE ScanLoop(_, _, _, _, _)
ScanLoop(symbols, i, buys, now, st) ==
    IF i > Len(symbols) THEN st
    ELSE LET symbol == symbols[i]
             skip == /\ st.sent[symbol] # NeverSent
                     /\ StillFresh(now - st.sent[symbol])
             gap == IF st.notified_at[symbol] = NeverSent THEN NeverSent
                    ELSE now - st.notified_at[symbol]
             checked == [st EXCEPT !.checks = @ \cup {<<symbol, gap>>}]
             notified ==
                 [checked EXCEPT !.sent[symbol] = now,
                                 !.notified_at[symbol] = now,
                                 !.notifications = @ \cup {<<symbol, gap>>}]
         IN  IF skip THEN ScanLoop(symbols, i + 1, buys, now, st)
             ELSE IF symbol \in buys
                  THEN ScanLoop(symbols, i + 1, buys, now, notified)
                  ELSE ScanLoop(symbols, i + 1, buys, now, checked)

CrInit ==
    /\ cr_now = 0
    /\ cr_ticks = 0
    /\ sent_signals = [s \in CryptoSymbols |-> NeverSent]
    /\ cr_notified_at = [s \in CryptoSymbols |-> NeverSent]
    /\ cr_checks = {}
    /\ cr_notifications = {}
    /\ FirstIdle
    /\ VsIdle
    /\ ScIdle
    /\ RqIdle
    /\ CmIdle
    /\ WkIdle

CrUnchanged ==
    UNCHANGED <<first_vars, vs_vars, sc_vars, rq_vars, cm_vars, wk_vars>>

ClockTick ==
    /\ cr_ticks < MaxTicks
    /\ \E step \in ClockSteps : cr_now' = cr_now + step
    /\ cr_ticks' = cr_ticks + 1
    /\ UNCHANGED <<sent_signals, cr_notified_at, cr_checks, cr_notifications>>
    /\ CrUnchanged

ScanAllSymbols ==
    /\ \E symbols \in SymbolLists, buys \in SUBSET CryptoSymbols :
        \E after \in {ScanLoop(symbols, 1, buys, cr_now,
                               [sent |-> sent_signals,
                                notified_at |-> cr_notified_at,
                                checks |-> cr_checks,
                                notifications |-> cr_notifications])} :
            /\ sent_signals' = after.sent
            /\ cr_notified_at' = after.notified_at
            /\ cr_checks' = after.checks
            /\ cr_notifications' = after.notifications
    /\ UNCHANGED <<cr_now, cr_ticks>>
    /\ CrUnchanged

CrNext == ClockTick \/ ScanAllSymbols

SpecCrypto == CrInit /\ [][CrNext]_vars

\* ---------------------------------------------------------------------------
\* StockSignalBot.handle_command, called by poll_commands for every update
\* whose text starts with "/" (stock_signal_bot.py 151-238, 270-312, 397-413)
\* ---------------------------------------------------------------------------
MaxCommands == 2

\* self.chat_ids: the chat ids of the configuration, as strings
ConfiguredChatIds == {<<"101">>, <<"101", "202">>}

\* message.get('chat', {}).get('id'): <<n>> for the integer n, <<>> for None
UpdateChatIds == {<<101>>, <<202>>, <<999>>, <<>>}

\* the text of an update, as the words text.split() gives
CommandTexts ==
    { <<"/start">>, <<"/help">>, <<"/status">>, <<"/scan">>, <<"/SCAN">>,
      <<"/caprange">>, <<"/caprange", "100", "2000">>,
      <<"/caprange", "2000", "100">>, <<"/caprange", "abc", "2000">>,
      <<"/interval", "60">>, <<"/history">>, <<"/clear">>, <<"/buy">> }

\* signals_sent as load_signals_history finds it
StoredSignals == {{}, {"AAPL_2024-01-05"}}

\* str(chat_id)
str(chat_id) == IF chat_id = <<>> THEN "None" ELSE ToString(chat_id[1])

\* parts[0].lower()
lower(word) == IF word = "/SCAN" THEN "/scan" ELSE word

\* float(word) raises ValueError
IsNotANumber(word) == word = "abc"

\* float(word), in the units of the command: millions of dollars
float(word) == IF word = "100" THEN 100 ELSE IF word = "2000" THEN 2000 ELSE 0

\* line 185: str(chat_id) in [str(cid) for cid in self.chat_ids]
AnyChatIsAuthorized(chat_id) == TRUE

IsAuthorizedChat(chat_id) ==
    \E i \in 1..Len(chat_ids) : chat_ids[i] = str(chat_id)

\* send_telegram_message(message, chat_id=...): one sendMessage per target
MessagesTo(targets, message) ==
    [i \in 1..Len(targets) |-> [to |-> targets[i], text |-> message]]

Reply(chat_id, message) ==
    sent_messages' = sent_messages \o MessagesTo(<<str(chat_id)>>, message)

\* handle_caprange (lines 270-312)
HandleCaprange(args, chat_id) ==
    IF Len(args) # 2
    THEN /\ Reply(chat_id, "usage")
         /\ UNCHANGED <<min_market_cap, max_market_cap>>
    ELSE IF IsNotANumber(args[1]) \/ IsNotANumber(args[2])
    THEN \* except ValueError: the message goes to every configured chat
         /\ sent_messages' = sent_messages \o MessagesTo(chat_ids, "numbers_only")
         /\ UNCHANGED <<min_market_cap, max_market_cap>>
    ELSE IF \/ float(args[1]) <= 0 \/ float(args[2]) <= 0
            \/ float(args[1]) >= float(args[2])
    THEN /\ Reply(chat_id, "invalid_range")
         /\ UNCHANGED <<min_market_cap, max_market_cap>>
    ELSE /\ min_market_cap' = float(args[1])
         /\ max_market_cap' = float(args[2])
         /\ Reply(chat_id, "range_updated")

HandleCommand(text, chat_id) ==
    /\ ncommands < MaxCommands
    /\ ncommands' = ncommands + 1
    /\ last_command' = [text |-> text, chat_id |-> chat_id]
    /\ IF ~IsAuthorizedChat(chat_id)
       THEN UNCHANGED <<min_market_cap, max_market_cap, signals_sent,
                        sent_messages, threads_started>>
       ELSE \E command \in {lower(text[1])} :
            IF command \in {"/start", "/help", "/status", "/interval"}
            THEN /\ Reply(chat_id, command)
                 /\ UNCHANGED <<min_market_cap, max_market_cap, signals_sent,
                                threads_started>>
            ELSE IF command = "/scan"
            THEN /\ IF is_scanning
                    THEN /\ Reply(chat_id, "scan_in_progress")
                         /\ UNCHANGED threads_started
                    ELSE /\ Reply(chat_id, "starting_scan")
                         /\ threads_started' = threads_started + 1
                 /\ UNCHANGED <<min_market_cap, max_market_cap, signals_sent>>
            ELSE IF command = "/caprange"
            THEN /\ HandleCaprange(Tail(text), chat_id)
                 /\ UNCHANGED <<signals_sent, threads_started>>
            ELSE IF command = "/history"
            THEN /\ Reply(chat_id, IF signals_sent = {} THEN "no_signals"
                                   ELSE "recent_signals")
                 /\ UNCHANGED <<min_market_cap, max_market_cap, signals_sent,
                                threads_started>>
            ELSE IF command = "/clear"
            THEN /\ signals_sent' = {}
                 /\ Reply(chat_id, "history_cleared")
                 /\ UNCHANGED <<min_market_cap, max_market_cap,
                                threads_started>>
            ELSE UNCHANGED <<min_market_cap, max_market_cap, signals_sent,
                             sent_messages, threads_started>>
    /\ UNCHANGED <<chat_ids, is_scanning>>
    /\ UNCHANGED <<scan_pc, scan_outcome, scan_calls, total_scans>>
    /\ UNCHANGED <<first_vars, vs_vars, rq_vars, cr_vars, wk_vars>>

\* scan_for_signals, run by the scheduler or by a started thread, sets
\* is_scanning (line 452)
ScanBegins ==
    /\ ~is_scanning
    /\ is_scanning' = TRUE
    /\ UNCHANGED <<scan_pc, scan_outcome, scan_calls, total_scans>>
    /\ UNCHANGED <<cm_vars, first_vars, vs_vars, rq_vars, cr_vars, wk_vars>>

\* and ends, with or without a new signal in the history (lines 515, 532)
ScanEnds ==
    /\ is_scanning
    /\ is_scanning' = FALSE
    /\ \E found \in {{}, {"MSFT_2024-02-02"}} :
           signals_sent' = signals_sent \cup found
    /\ UNCHANGED <<chat_ids, min_market_cap, max_market_cap, sent_messages,
                   threads_started, last_command, ncommands>>
    /\ UNCHANGED <<scan_pc, scan_outcome, scan_calls, total_scans>>
    /\ UNCHANGED <<first_vars, vs_vars, rq_vars, cr_vars, wk_vars>>

CmInit ==
    /\ chat_ids \in ConfiguredChatIds
    /\ min_market_cap = 500
    /\ max_market_cap = 50000
    /\ signals_sent \in StoredSignals
    /\ sent_messages = <<>>
    /\ threads_started = 0
    /\ last_command = NoCommand
    /\ ncommands = 0
    /\ FirstIdle
    /\ VsIdle
    /\ ScIdle
    /\ RqIdle
    /\ CrIdle
    /\ WkIdle

CmNext ==
    \/ \E text \in CommandTexts, chat_id \in UpdateChatIds :
           HandleCommand(text, chat_id)
    \/ ScanBegins
    \/ ScanEnds

SpecCommands == CmInit /\ [][CmNext]_vars

\* ---------------------------------------------------------------------------
\* FMPAPIClient._convert_to_weekly(daily_data) (fmp_api.py 132-169)
\* A date is the number of its day, day 0 a Monday: the '%Y-%m-%d' strings
\* of the data sort as their days do, and strptime gives the day back.
\* ---------------------------------------------------------------------------
WeekSpan == 3

MaxDays == 4

\* datetime.weekday(): Monday is 0
weekday(date) == date % 7

\* the calendar week of a day, Monday to Sunday
CalendarWeek(date) == date \div 7

TradingDays == {d \in 0..(7 * WeekSpan - 1) : weekday(d) < 5}

PricePatterns == {1, 3}

DailyCandle(d, p) ==
    [date |-> d, open |-> 10 + ((d * p) % 7), high |-> 13 + ((d * p) % 7) + (d % 3),
     low |-> 9 + ((d * p) % 7) - (d % 2), close |-> 11 + ((d * p) % 5), volume |-> 1]

\* the 'historical' list of the data source: newest day first
RECURSIVE NewestFirst(_, _)
NewestFirst(days, p) ==
    IF days = {} THEN <<>>
    ELSE LET last == CHOOSE d \in days : \A o \in days : o <= d
         IN  <<DailyCandle(last, p)>> \o NewestFirst(days \ {last}, p)

DailyLists ==
    UNION { {NewestFirst(days, p), Reversed(NewestFirst(days, p))} :
              days \in {s \in SUBSET TradingDays : Cardinality(s) <= MaxDays},
              p \in PricePatterns }

\* sorted(daily_data, key=lambda x: x['date'])
RECURSIVE SortedByDate(_)
SortedByDate(daily) ==
    IF daily = <<>> THEN <<>>
    ELSE LET i == CHOOSE k \in 1..Len(daily) :
                      /\ \A j \in 1..Len(daily) : daily[k].date <= daily[j].date
                      /\ \A j \in 1..(k - 1) : daily[j].date # daily[k].date
         IN  <<daily[i]>> \o
             SortedByDate(SubSeq(daily, 1, i - 1) \o SubSeq(daily, i + 1, Len(daily)))

RECURSIVE SumVolume(_)
SumVolume(week) ==
    IF week = <<>> THEN 0 ELSE Head(week).volume + SumVolume(Tail(week))

\* the weekly_candle dictionary built from current_week (lines 145-152, 159-166)
WeeklyCandle(current_week) ==
    [date |-> current_week[1].date,
     open |-> current_week[1].open,
     high |-> CHOOSE h \in {current_week[i].high : i \in 1..Len(current_week)} :
                  \A i \in 1..Len(current_week) : current_week[i].high <= h,
     low |-> CHOOSE l \in {current_week[i].low : i \in 1..Len(current_week)} :
                 \A i \in 1..Len(current_week) : l <= current_week[i].low,
     close |-> current_week[Len(current_week)].close,
     volume |-> SumVolume(current_week)]

\* line 143: the day starts a new weekly candle
StartsNewWeek(day, current_week) ==
    weekday(day.date) < weekday(current_week[Len(current_week)].date)

\* the loop of lines 139-156 and the flush of lines 158-167: the lists of
\* days that become weekly candles, oldest first
RECURSIVE WeekLoop(_, _, _, _)
WeekLoop(days, i, weeks, current_week) ==
    IF i > Len(days)
    THEN IF current_week # <<>> THEN Append(weeks, current_week) ELSE weeks
    ELSE IF current_week = <<>>
    THEN WeekLoop(days, i + 1, weeks, <<days[i]>>)
    ELSE IF StartsNewWeek(days[i], current_week)
    THEN WeekLoop(days, i + 1, Append(weeks, current_week), <<days[i]>>)
    ELSE WeekLoop(days, i + 1, weeks, Append(current_week, days[i]))

WeekGroups(daily_data) ==
    IF daily_data = <<>> THEN <<>>
    ELSE Reversed(WeekLoop(SortedByDate(daily_data), 1, <<>>, <<>>))

convert_to_weekly(daily_data) ==
    [i \in 1..Len(WeekGroups(daily_data)) |->
        WeeklyCandle(WeekGroups(daily_data)[i])]

WkInit ==
    /\ wk_daily \in DailyLists
    /\ wk_groups = <<>>
    /\ wk_weekly = <<>>
    /\ wk_pc = "call"
    /\ FirstIdle
    /\ VsIdle
    /\ ScIdle
    /\ RqIdle
    /\ CrIdle
    /\ CmIdle

WkCall ==
    /\ wk_pc = "call"
    /\ wk_groups' = WeekGroups(wk_daily)
    /\ wk_weekly' = convert_to_weekly(wk_daily)
    /\ wk_pc' = "done"
    /\ UNCHANGED <<wk_daily, first_vars, vs_vars, sc_vars, rq_vars, cr_vars,
                   cm_vars>>

WkNext == WkCall

SpecWeekly == WkInit /\ [][WkNext]_vars

\* ------------------------------------------------------------------------
\* Properties
\* ------------------------------------------------------------------------
AllStages == <<"PEAK_SEARCH", "BEARISH_CLASSIFY", "EMA_CHECK", "SIGNAL_BUILD">>

IsPrefix(s, t) == Len(s) <= Len(t) /\ \A i \in 1..Len(s) : s[i] = t[i]

IsBuy == result # None /\ result.signal = "BUY"

\* The EMA of the closes at the latest candle
LastEma(d, period) == compute_ema_series(Closes(d), period)[Len(d)]

LastLow(d) == FromInt(d[Len(d)].low)

\* Section 3 data model: positive prices, strictly increasing timestamps
ValidSeries(c) ==
    /\ \A i \in 1..Len(c) :
        c[i].open > 0 /\ c[i].high > 0 /\ c[i].low > 0 /\ c[i].close > 0
    /\ \A i \in 1..(Len(c) - 1) : c[i].timestamp < c[i + 1].timestamp

\* C1: every signal record analyze returns has risk_reward >= 1.5 and
\* entry_price > 0 (stated here for the ratio configurations that
\* validate_config accepts, which are among "every configured ratio")
C1_ReturnedSignalPassesGate ==
    (pc = "DONE" /\ IsBuy /\ ValidateConfigOk(TP_RATIO, SL_RATIO)) =>
        /\ RLeq(Rat(3, 2), result.risk_reward)
        /\ result.entry_price.n > 0

\* C2: the stages run in the order PEAK_SEARCH, BEARISH_CLASSIFY, EMA_CHECK,
\* SIGNAL_BUILD; a stage runs only if every stage before it succeeded (a peak
\* was found, the run was all or all_but_one, the latest low was below the
\* selected EMA); BUY is returned only after all four, and a call that ends
\* earlier ends in no-signal
C2_StagesInOrder ==
    /\ IsPrefix(stages, AllStages)
    /\ Len(stages) >= 2 =>
          check_single_peak(df, recent_window, total_window) # NoPeak
    /\ Len(stages) >= 3 =>
          check_bearish_pattern(df, BEARISH_WINDOW, peak_idx, buffer)
              \in {"all", "all_but_one"}
    /\ Len(stages) >= 4 => RLess(LastLow(df), LastEma(df, ema_period))
    /\ IsBuy => pc = "DONE" /\ stages = AllStages
    /\ (pc = "DONE" /\ stages # AllStages) => result = None

C2_Witness ==
    /\ pc = "DONE" /\ IsBuy /\ stages = AllStages /\ pattern = "all"

\* C3: when two or more candles of the analysis window share the maximum
\* high, no peak is found and analyze returns no signal after PEAK_SEARCH
TiedMaximum(d, total) ==
    LET subset == ILocTail(d, Min(Len(d), total))
        m == SeriesMax(Highs(subset))
    IN  Cardinality({i \in 1..Len(subset) : subset[i].high = m}) >= 2

C3_TieMeansNoPeak ==
    (Len(stages) >= 1 /\ TiedMaximum(df, total_window)) =>
        /\ peak_idx = NoPeak
        /\ pc = "DONE" /\ result = None /\ stages = <<"PEAK_SEARCH">>

\* two breakout candles tie at 18 and a pullback candle ends the series
C3_Witness ==
    /\ pc = "DONE" /\ Len(stages) >= 1 /\ TiedMaximum(df, total_window)
    /\ df[Len(df) - 1].high = 18 /\ df[Len(df) - 2].high = 18
    /\ df[Len(df)].low = 10 /\ df[Len(df)].high = 11

\* C4: the EMA period is 15 exactly when the run is all and 33 exactly when
\* it is all_but_one; the signal carries that period in ema_period, in its
\* decision tag and in its entry price; a run classified none gives no signal
C4_PeriodFollowsPattern ==
    Len(stages) >= 2 =>
        LET p == check_bearish_pattern(df, BEARISH_WINDOW, peak_idx, buffer)
        IN  /\ p = "all" => ema_period = 15
            /\ p = "all_but_one" => ema_period = 33
            /\ p = "none" => (pc = "DONE" /\ result = None /\ Len(stages) = 2)
            /\ IsBuy =>
                /\ result.pattern = p
                /\ result.ema_period = (IF p = "all" THEN 15 ELSE 33)
                /\ result.decision = (IF p = "all" THEN "YES_15" ELSE "YES_33")
                /\ result.entry_price =
                       Round2(LastEma(df, IF p = "all" THEN 15 ELSE 33))
                /\ RLess(LastLow(df), LastEma(df, IF p = "all" THEN 15 ELSE 33))

C4_Witness ==
    /\ pc = "DONE" /\ IsBuy /\ pattern = "all_but_one"
    /\ result.ema_period = 33 /\ result.decision = "YES_33"

\* C5: once a peak and a valid pattern are found, a signal is returned only
\* if the latest low is strictly below the selected EMA at the latest index;
\* a low equal to or above it gives no signal
C5_EntryStrictlyBelowEma ==
    Len(stages) >= 3 =>
        /\ IsBuy => RLess(LastLow(df), LastEma(df, ema_period))
        /\ ~RLess(LastLow(df), LastEma(df, ema_period)) =>
              (pc = "DONE" /\ result = None /\ Len(stages) = 3)

\* the latest low equals the EMA exactly
C5_Witness ==
    /\ Len(stages) >= 3 /\ pc = "DONE" /\ result = None
    /\ LastLow(df) = LastEma(df, ema_period)

\* C6: a non-empty run after the peak is all with no bullish candle in it,
\* all_but_one with exactly one, none with two or more
BullishInRun(i) ==
    LET c == bp_df[PeakLabel + i]
        prev == bp_df[PeakLabel + i - 1]
    IN  \/ c.high > prev.high
        \/ c.close > c.open
        \/ 100 * c.high > (100 + bp_buffer) * c.open

C6_ClassifiedByBullishCount ==
    (bp_pc = "done" /\ bp_start_idx = PeakLabel) =>
        LET n == Min(Len(bp_df) - PeakLabel, BEARISH_WINDOW)
            k == Cardinality({i \in 1..n : BullishInRun(i)})
        IN  n >= 1 =>
              /\ k = 0 => bp_result = "all"
              /\ k = 1 => bp_result = "all_but_one"
              /\ k >= 2 => bp_result = "none"

\* an all-bearish run of 7 candles is classified all
C6_Witness ==
    /\ bp_pc = "done" /\ bp_start_idx = PeakLabel /\ bp_result = "all"
    /\ Len(bp_df) - PeakLabel = 7
    /\ \A i \in 1..7 : ~BullishInRun(i)

\* C7: for N prices and a period P >= 1 the series has length N; with N < P
\* every entry is undefined; otherwise entries before P are undefined, entry
\* P is the mean of the first P prices and every later entry is
\* price*a + previous*(1-a) with a = 2/(P+1)
C7_EmaContract ==
    ema_pc = "done" =>
        LET N == Len(ema_prices)
            P == ema_period_arg
            a == Rat(2, P + 1)
        IN  /\ Len(ema_result) = N
            /\ N < P => \A i \in 1..N : IsNa(ema_result[i])
            /\ N >= P =>
                /\ \A i \in 1..(P - 1) : IsNa(ema_result[i])
                /\ ~IsNa(ema_result[P])
                /\ ema_result[P].n * P = SumRange(ema_prices, 1, P) * ema_result[P].d
                /\ \A i \in (P + 1)..N :
                      ema_result[i] =
                          RAdd(RMul(FromInt(ema_prices[i]), a),
                               RMul(ema_result[i - 1], RSub(FromInt(1), a)))

\* a series with undefined entries, a seed and two recurrence steps over
\* prices that differ
C7_Witness ==
    /\ ema_pc = "done" /\ ema_period_arg = 2 /\ Len(ema_prices) = 4
    /\ ema_prices[3] # ema_prices[4]
    /\ ema_result[4] # ema_result[3]

\* C8: for a signal built from a positive entry and positive ratios, the
\* entry is the selected EMA at the latest index, take_profit is
\* entry*(1+TP), stop_loss is entry*(1-SL), all from the unrounded entry,
\* and risk_reward is TP/SL whatever the entry (2.0 for 10% and 5%); the
\* record shows each rounded to 2 decimals
C8_LevelsFromUnroundedEntry ==
    (IsBuy /\ tp_ratio > 0 /\ sl_ratio > 0) =>
        LET e == LastEma(df, result.ema_period)
            levels == TradeLevels(e, tp_ratio, sl_ratio)
        IN  e.n > 0 =>
              /\ levels.entry_price = e
              /\ levels.tp_price = Rat(e.n * (100 + tp_ratio), e.d * 100)
              /\ levels.sl_price = Rat(e.n * (100 - sl_ratio), e.d * 100)
              /\ levels.risk_reward = Rat(tp_ratio, sl_ratio)
              /\ result.entry_price = Round2(e)
              /\ result.tp_price = Round2(Rat(e.n * (100 + tp_ratio), e.d * 100))
              /\ result.sl_price = Round2(Rat(e.n * (100 - sl_ratio), e.d * 100))
              /\ result.risk_reward = Round2(Rat(tp_ratio, sl_ratio))
              /\ (tp_ratio = 10 /\ sl_ratio = 5) => result.risk_reward = FromInt(2)

\* TP 10%, SL 5%, and an entry that is not a whole number of cents
C8_Witness ==
    /\ IsBuy /\ tp_ratio = 10 /\ sl_ratio = 5
    /\ result.risk_reward = FromInt(2)
    /\ LastEma(df, result.ema_period) # result.entry_price

\* C9: when the computed stop_loss is not below entry_price (risk <= 0) the
\* signal is rejected: the signal generator and analyze return no record
C9_NonPositiveRiskRejected ==
    (pc = "DONE" /\ stages = AllStages) =>
        LET levels == TradeLevels(LastEma(df, ema_period), tp_ratio, sl_ratio)
        IN  levels.risk.n <= 0 => result = None

\* C10: for every series of the data model, short ones included, analyze
\* ends in a signal or in no-signal and never raises; insufficient data, no
\* peak, pattern none and a low not under the EMA are no-signal returns
C10_NeverRaises ==
    ValidSeries(candles) =>
        /\ pc \in {"START", "PEAK_SEARCH", "BEARISH_CLASSIFY", "EMA_CHECK",
                   "SIGNAL_BUILD", "DONE"}
        /\ pc = "DONE" => (result = None \/ result.signal = "BUY")
        /\ (pc # "START" /\ Len(candles) < 35) =>
              (pc = "DONE" /\ result = None /\ stages = <<>>)
        /\ (Len(stages) >= 1 /\ peak_idx = NoPeak) =>
              (pc = "DONE" /\ result = None)
        /\ (Len(stages) >= 2 /\ pattern = "none") =>
              (pc = "DONE" /\ result = None)
        /\ (Len(stages) = 3 /\ pc = "DONE") => result = None

\* 34 candles that end in a breakout and a pullback: no signal, no stage run
C10_Witness ==
    /\ pc = "DONE" /\ result = None /\ stages = <<>>
    /\ Len(candles) = 34
    /\ candles[33].high = 18 /\ candles[34].low = 10

\* C11: for candles with distinct timestamps listed in any order, analyze
\* works on the candles arranged by ascending timestamp and returns exactly
\* what it returns for that ascending list; no result comes from the
\* out-of-order positions
DistinctTimestamps(c) ==
    Cardinality({c[i].timestamp : i \in 1..Len(c)}) = Len(c)

\* The candles of c arranged by ascending timestamp (c has distinct timestamps)
Ascending(c) ==
    LET rank == <<>> \o [j \in 1..Len(c) |->
                    1 + Cardinality({k \in 1..Len(c) :
                            c[k].timestamp < c[j].timestamp})]
    IN  <<>> \o [i \in 1..Len(c) |-> c[CHOOSE j \in 1..Len(c) : rank[j] = i]]

\* What analyze returns for a list that is already in ascending order
AnalyzeAscending(c, intv, tp, sl) ==
    IF InsufficientData(c) THEN None
    ELSE LET weekly == intv = "1w"
             recent == IF weekly THEN WEEKLY_RECENT ELSE DAILY_RECENT
             total == IF weekly THEN WEEKLY_TOTAL ELSE DAILY_TOTAL
             buf == IF weekly THEN WEEKLY_BUFFER ELSE DAILY_BUFFER
             peak == check_single_peak(c, recent, total)
             p == check_bearish_pattern(c, BEARISH_WINDOW, peak, buf)
             period == IF p = "all" THEN EMA_ALL ELSE EMA_ALL_BUT_ONE
             signal == generate_trade_signal(c, Symbol, period, tp, sl)
         IN  IF peak = NoPeak THEN None
             ELSE IF p \notin {"all", "all_but_one"} THEN None
             ELSE IF ~is_low_under_ema(c, period) THEN None
             ELSE IF signal = None THEN None
             ELSE WithAnalysisFields(signal, p, peak, intv)

StrictlyIncreasingTimestamps(c) ==
    \A i \in 1..(Len(c) - 1) : c[i].timestamp < c[i + 1].timestamp

C11_OrderOfListIrrelevant ==
    DistinctTimestamps(candles) =>
        /\ pc # "RAISED"
        /\ ~StrictlyIncreasingTimestamps(candles) =>
              /\ pc \notin {"START", "DONE"} => df = Ascending(candles)
              /\ pc = "DONE" =>
                    result = AnalyzeAscending(Ascending(candles), interval,
                                              tp_ratio, sl_ratio)

\* a newest-first list for which a signal is returned
C11_Witness ==
    /\ pc = "DONE" /\ IsBuy
    /\ DistinctTimestamps(candles)
    /\ candles[1].timestamp = Len(candles)
    /\ candles[Len(candles)].timestamp = 1

\* C12: analyze given a list whose timestamps are not strictly increasing
\* (out of order, or one timestamp twice) fails with an error: it returns
\* neither a signal nor no-signal
C12_BrokenOrderFailsLoudly ==
    ~StrictlyIncreasingTimestamps(candles) => pc # "DONE"

\* C13: compute_ema_series called with a period of 0 or less, whatever the
\* prices, never returns a series: it fails at once, on a check of the
\* period made before anything is computed
C13_NonPositivePeriodFailsFast ==
    (ema_period_arg <= 0 /\ ema_pc \in {"done", "raised"}) =>
        /\ ema_pc = "raised"
        /\ ema_error.line <= 10

\* C14: analyze changes neither the strategy object nor the candle list it
\* is given, and every call on the same list and interval, however the calls
\* on the object are interleaved, returns the same value: the one that
\* follows from the list, the interval and the two ratios
C14_AnalyzeIsPure ==
    /\ lists = lists0
    /\ tp_ratio = InitRatio(TP_RATIO, DEFAULT_TP)
    /\ sl_ratio = InitRatio(SL_RATIO, DEFAULT_SL)
    /\ \A k \in DOMAIN returned :
          /\ Cardinality(returned[k]) <= 1
          /\ \A r \in returned[k] :
                \E expected \in {AnalyzeAscending(Ascending(lists0[k[1]]), k[2],
                                                  InitRatio(TP_RATIO, DEFAULT_TP),
                                                  InitRatio(SL_RATIO, DEFAULT_SL))} :
                    IF expected = None THEN r = None
                    ELSE r = [expected EXCEPT !.symbol = k[1]]

\* two calls on the same newest-first list have returned, both a signal
C14_Witness ==
    /\ ncalls >= 2
    /\ \A t \in Threads : frames[t].pc = "IDLE"
    /\ lists["A"] = Reversed(SignalSeries)
    /\ returned[<<"A", "1w">>] # {}
    /\ \A r \in returned[<<"A", "1w">>] : r.signal = "BUY"
    /\ \A k \in DOMAIN returned : k # <<"A", "1w">> => returned[k] = {}

\* C15: whatever the configuration of the service, scan_for_signals is
\* started by POST /trigger-scan only for a request that carries the admin
\* bearer token
C15_ScanOnlyWhenAuthorised ==
    \A i \in 1..Len(scan_threads) :
        /\ ADMIN_TOKEN.set /\ ADMIN_TOKEN.value # ""
        /\ scan_threads[i] = Header("Bearer " \o ADMIN_TOKEN.value)

\* C16: the candles of the run are labelled in order from the candle right
\* after the peak; a candle is bullish exactly when its high is above the
\* previous candle's high, or its close is above its open, or its high is
\* above (1+buffer)*open, and bearish otherwise; the previous candle of the
\* first run candle is the peak candle; nothing else enters a label
C16_LabelFromCandleAndPredecessor ==
    (bp_pc = "done" /\ bp_start_idx = PeakLabel) =>
        /\ Len(bp_statuses) = Min(Len(bp_df) - PeakLabel, BEARISH_WINDOW)
        /\ \A i \in 1..Len(bp_statuses) :
              /\ bp_statuses[i] \in {"bullish", "bearish"}
              /\ bp_statuses[i] = "bullish" <=> BullishInRun(i)

\* the first run candle, compared with the peak candle, is bullish by its
\* wick alone (daily buffer); the second is bearish; the third is bullish by
\* its close alone
C16_Witness ==
    /\ bp_pc = "done" /\ bp_start_idx = PeakLabel /\ bp_buffer = DAILY_BUFFER
    /\ Len(bp_statuses) >= 3
    /\ bp_df[PeakLabel + 1].high <= bp_df[PeakLabel].high
    /\ bp_df[PeakLabel + 1].close <= bp_df[PeakLabel + 1].open
    /\ 100 * bp_df[PeakLabel + 1].high > (100 + bp_buffer) * bp_df[PeakLabel + 1].open
    /\ bp_df[PeakLabel + 3].high <= bp_df[PeakLabel + 2].high
    /\ bp_df[PeakLabel + 3].close > bp_df[PeakLabel + 3].open
    /\ SubSeq(bp_statuses, 1, 3) = <<"bullish", "bearish", "bullish">>

\* The rows of pk_df that make up the subset, the row carrying a label, the
\* rows holding the highest high of the subset, the EMA15 of the subset closes
PkFirst == Len(pk_df) - Min(Len(pk_df), pk_total) + 1

PkRows == PkFirst..Len(pk_df)

PkRow(label) == CHOOSE i \in PkRows : pk_df[i].timestamp = label

PkTops == {i \in PkRows : \A j \in PkRows : pk_df[j].high <= pk_df[i].high}

PkEma(i) ==
    compute_ema_series(<<>> \o [k \in 1..(Len(pk_df) - PkFirst + 1) |->
                                   pk_df[PkFirst + k - 1].close],
                       PEAK_EMA_PERIOD)[i - PkFirst + 1]

PkReturned == pk_pc = "done" /\ pk_result.value # NoPeak

\* C17: a returned peak is one of the last recent_window candles of the
\* subset; when the single highest high of the subset lies further back, no
\* peak is returned
C17_PeakWithinRecentWindow ==
    pk_pc = "done" =>
        /\ pk_result.value # NoPeak =>
              /\ \E i \in PkRows : pk_df[i].timestamp = pk_result.value
              /\ PkRow(pk_result.value) > Len(pk_df) - pk_recent
        /\ \A i \in PkTops :
              (PkTops = {i} /\ i <= Len(pk_df) - pk_recent) =>
                  pk_result = [line |-> 124, value |-> NoPeak]

\* a peak is returned from the oldest candle of the recent window
C17_Witness ==
    /\ PkReturned
    /\ pk_recent >= 2 /\ pk_recent < Len(pk_df) - PkFirst + 1
    /\ PkRow(pk_result.value) = Len(pk_df) - pk_recent + 1

\* C18: the high of a returned peak is at least 1.2 times the EMA15 of the
\* closes of the subset alone, read at the peak; a single recent highest high
\* where that EMA is undefined, or below 1.2 times it, gives no peak
C18_PeakAboveEmaOfSubset ==
    pk_pc = "done" =>
        /\ pk_result.value # NoPeak =>
              LET i == PkRow(pk_result.value)
              IN  /\ ~IsNa(PkEma(i))
                  /\ 5 * pk_df[i].high * PkEma(i).d >= 6 * PkEma(i).n
        /\ \A i \in PkTops :
              (PkTops = {i} /\ i > Len(pk_df) - pk_recent) =>
                  /\ IsNa(PkEma(i)) => pk_result = [line |-> 130, value |-> NoPeak]
                  /\ (~IsNa(PkEma(i))
                      /\ 5 * pk_df[i].high * PkEma(i).d < 6 * PkEma(i).n)
                        => pk_result = [line |-> 135, value |-> NoPeak]

\* a peak is returned from a frame whose first candle, with a different close,
\* lies outside the subset
C18_Witness ==
    /\ PkReturned
    /\ PkFirst > 1
    /\ pk_df[1].close # pk_df[PkFirst].close

\* C19: the earlier portion is the first subset_length - recent_window - 1
\* candles of the subset; a peak is returned only if that portion is empty or
\* some close of the last recent_window + 1 candles is above its highest high
PkBreakout ==
    LET last == Len(pk_df) - pk_recent - 1
    IN  \/ last < PkFirst
        \/ \E i \in (last + 1)..Len(pk_df) :
              \A j \in PkFirst..last : pk_df[i].close > pk_df[j].high

C19_BreakoutOverEarlierPortion ==
    pk_pc = "done" =>
        /\ pk_result.value # NoPeak => PkBreakout
        /\ pk_result.line \in {158, 160} => PkBreakout
        /\ pk_result.line = 146 => ~PkBreakout

\* a peak is returned where only the oldest of the last recent_window + 1
\* candles closes above the earlier portion
C19_Witness ==
    /\ PkReturned
    /\ LET last == Len(pk_df) - pk_recent - 1
       IN  /\ last >= PkFirst
           /\ \A i \in (last + 1)..Len(pk_df) :
                 (i = last + 1) <=>
                    \A j \in PkFirst..last : pk_df[i].close > pk_df[j].high

\* C20: with the peak not the first candle of the subset, a peak is returned
\* only if the close of the peak candle or of the candle before it is above
\* the highest high of the candles before that preceding candle; with no such
\* candle the check passes
PkCloseConfirmed(i) ==
    \/ i = PkFirst
    \/ i - 2 < PkFirst
    \/ \A j \in PkFirst..(i - 2) : pk_df[i].close > pk_df[j].high
    \/ \A j \in PkFirst..(i - 2) : pk_df[i - 1].close > pk_df[j].high

C20_PeakCloseConfirmed ==
    pk_pc = "done" =>
        /\ pk_result.value # NoPeak => PkCloseConfirmed(PkRow(pk_result.value))
        /\ pk_result.line = 158 => \A i \in PkTops : ~PkCloseConfirmed(i)

\* a peak is returned on the close of the preceding candle alone
C20_Witness ==
    /\ PkReturned
    /\ LET i == PkRow(pk_result.value)
       IN  /\ i - 2 >= PkFirst
           /\ \E j \in PkFirst..(i - 2) : pk_df[i].close <= pk_df[j].high
           /\ \A j \in PkFirst..(i - 2) : pk_df[i - 1].close > pk_df[j].high

\* C21: with total_window below recent_window + 7, _check_single_peak
\* returns no peak for every candle series
C21_NarrowTotalWindowNoPeak ==
    (pk_pc = "done" /\ pk_total < pk_recent + 7) => pk_result.value = NoPeak

\* C22: the EMA has no lookahead: where the value at index i is defined, every
\* price sequence that agrees with the given one up to i (its prefix ending at
\* i, longer ones, ones with other later prices) has the same value at i
C22_EmaHasNoLookahead ==
    ema_pc = "done" =>
        \A i \in 1..Len(ema_prices) :
            ~IsNa(ema_result[i]) =>
                \A q \in SeqsUpTo(EmaPrices, MaxPrices) :
                    (Len(q) >= i /\ SubSeq(q, 1, i) = SubSeq(ema_prices, 1, i)) =>
                        compute_ema_series(q, ema_period_arg)[i] = ema_result[i]

\* a defined value is followed by a price that moves the next value
C22_Witness ==
    /\ ema_pc = "done" /\ ema_period_arg = 3 /\ Len(ema_prices) = 4
    /\ ~IsNa(ema_result[3])
    /\ ema_result[4] # ema_result[3]

\* C23 as amended: validate_signal accepts a signal exactly when its
\* risk_reward is at least 1.5, its entry_price is above 0 and its
\* current_price is at most 10% of the entry away from the entry
C23_GateAlsoNeedsPriceNearEntry ==
    vs_pc = "done" =>
        (vs_result <=>
            /\ RLeq(Rat(3, 2), vs_signal.risk_reward)
            /\ vs_signal.entry_price.n > 0
            /\ 10 * Abs(vs_signal.current_price.n * vs_signal.entry_price.d
                        - vs_signal.entry_price.n * vs_signal.current_price.d)
                 <= vs_signal.entry_price.n * vs_signal.current_price.d)

\* a signal exactly 10% below its current price is accepted
C23_Witness ==
    /\ vs_pc = "done" /\ vs_result
    /\ vs_signal.entry_price = FromInt(10)
    /\ vs_signal.current_price = FromInt(11)

\* C23: validate_signal accepts a signal exactly when its risk_reward is at
\* least 1.5 and its entry_price is above 0
C23_GateIsRiskRewardAndEntry ==
    vs_pc = "done" =>
        (vs_result <=>
            /\ RLeq(Rat(3, 2), vs_signal.risk_reward)
            /\ vs_signal.entry_price.n > 0)

\* C24: when analyze returns BUY, the run that was classified has at least 1
\* and at most recent_window - 1 candles (4 for weekly, 6 for daily), so
\* never the full 7; a peak on the latest candle gives an empty run,
\* classification none and no signal
RunLength == Len(df) - GetLoc(df, peak_idx)

C24_RunShorterThanRecentWindow ==
    /\ (pc = "DONE" /\ IsBuy) =>
          /\ RunLength >= 1
          /\ RunLength <= recent_window - 1
          /\ RunLength <= (IF interval = "1w" THEN 4 ELSE 6)
          /\ RunLength < BEARISH_WINDOW
    /\ (pc = "DONE" /\ peak_idx # NoPeak /\ RunLength = 0) =>
          /\ pattern = "none"
          /\ result = None

\* a weekly BUY after a run of four candles
C24_Witness ==
    /\ pc = "DONE" /\ IsBuy /\ interval = "1w"
    /\ RunLength = 4

\* C25: in a call of analyze that got past the length guard, the EMA(15) of
\* the subset closes is defined at every candle of the recent window, hence
\* at any peak the search can accept, and the EMA(15) or EMA(33) of all
\* closes that the later stages look up is defined at the latest candle; the
\* undefined-EMA returns of _check_single_peak, _is_low_under_ema and
\* _generate_trade_signal are never taken
C25_EmaLookupsDefined ==
    /\ pc = "PEAK_SEARCH" =>
          /\ \E ema \in {compute_ema_series(
                            Closes(ILocTail(df, Min(Len(df), total_window))),
                            PEAK_EMA_PERIOD)} :
                \A i \in 1..Len(ema) :
                    i > Len(ema) - recent_window => ~IsNa(ema[i])
          /\ ~EmaLookupRaises(df, recent_window, total_window) =>
                check_single_peak_return(df, recent_window, total_window).line # 130
    /\ pc = "EMA_CHECK" => ~IsNa(LastEma(df, ema_period))
    /\ (pc = "DONE" /\ Len(stages) = Len(AllStages)) => result # None

\* a BUY from exactly 35 candles on the EMA of 33
C25_Witness ==
    /\ pc = "DONE" /\ IsBuy
    /\ Len(df) = 35 /\ ema_period = 33

\* C26: at most one thread is inside the scanning body of scan_for_signals,
\* a call made while a scan is in progress returns without scanning, and
\* is_scanning is false once no scan is running
Scanning == {t \in DOMAIN scan_pc : scan_pc[t] \in {"body", "finally"}}

C26_OneScanAtATime ==
    /\ Cardinality(Scanning) <= 1
    /\ (Scanning = {} /\ \A t \in DOMAIN scan_pc : scan_pc[t] # "line_452")
          => ~is_scanning
    /\ Scanning # {} => is_scanning

\* C27: a call of _make_request makes at most max_retries (6) HTTP attempts
\* and cannot go on after the sixth; it ends by returning the body of a
\* status-200 response or by raising, and returns nothing for another response
C27_BoundedAttemptsReturnOnly200 ==
    /\ Len(rq_log) <= 6
    /\ rq_pc \in {"IDLE", "loop", "returned", "raised"}
    /\ rq_pc = "loop" => (Len(rq_log) < 6 /\ rq_result = "" /\ rq_error = "")
    /\ rq_pc = "returned" =>
          /\ rq_log[Len(rq_log)] = "200"
          /\ rq_result = "data" /\ rq_error = ""
    /\ rq_pc = "raised" => (rq_result = "" /\ rq_error # "")
    /\ \A i \in 1..(Len(rq_log) - 1) : rq_log[i] # "200"

\* the sixth attempt is answered with status 200 after five failures of
\* different kinds
C27_Witness ==
    /\ rq_pc = "returned" /\ Len(rq_log) = 6
    /\ {rq_log[i] : i \in 1..5} =
          {"200_bad_json", "429", "503", "404", "timeout"}

\* C28: after a notification for a symbol, every later check of the symbol
\* and every later notification for it comes at least signal_expiry_hours
\* (168) hours after that notification
C28_QuietForExpiryHours ==
    \A entry \in cr_checks \cup cr_notifications :
        entry[2] = NeverSent \/ entry[2] >= 168

\* a symbol is notified again exactly 168 hours after its last notification,
\* and was left alone at 167 hours
C28_Witness ==
    /\ <<"BTCUSDT", 168>> \in cr_notifications
    /\ <<"ETHUSDT", NeverSent>> \in cr_checks
    /\ cr_ticks = 2

\* C29: a call of handle_command with a chat id that is not among the
\* configured chat_ids changes nothing: is_scanning and the number of scan
\* threads started, the market-cap range, the signal history and the messages
\* sent are what they were before the call, whatever the command.
C29_UnauthorizedCommandChangesNothing ==
    [][(/\ ncommands' = ncommands + 1
        /\ \A i \in 1..Len(chat_ids) :
               chat_ids[i] # str(last_command'.chat_id))
       => UNCHANGED <<is_scanning, threads_started, min_market_cap,
                      max_market_cap, signals_sent, sent_messages, chat_ids>>]_vars

C29_Witness ==
    /\ ncommands = 2
    /\ last_command = [text |-> <<"/clear">>, chat_id |-> <<999>>]
    /\ chat_ids = <<"101", "202">>
    /\ signals_sent = {"AAPL_2024-01-05", "MSFT_2024-02-02"}
    /\ Len(sent_messages) = 1
    /\ sent_messages[1].text = "range_updated"

\* C30: the weekly candles of _convert_to_weekly partition the daily candles:
\* every day is in exactly one weekly candle, no weekly candle holds days of
\* two calendar weeks, a weekly candle opens at its first day's open, closes
\* at its last day's close, has the highest high and the lowest low of its
\* days, and the list runs from the newest week to the oldest.
C30_WeeklyCandlesAreCalendarWeeks ==
    wk_pc = "done" =>
        /\ \A d \in 1..Len(wk_daily) :
               Cardinality({<<g, j>> \in (1..Len(wk_groups)) \X (1..MaxDays + 1) :
                               /\ j <= Len(wk_groups[g])
                               /\ wk_groups[g][j] = wk_daily[d]}) = 1
        /\ \A g \in 1..Len(wk_groups) :
               \A j, k \in 1..Len(wk_groups[g]) :
                   CalendarWeek(wk_groups[g][j].date) =
                       CalendarWeek(wk_groups[g][k].date)
        /\ Len(wk_weekly) = Len(wk_groups)
        /\ \A g \in 1..Len(wk_groups) :
               \E week \in {wk_groups[g]} :
                   /\ \A j \in 1..(Len(week) - 1) : week[j].date < week[j + 1].date
                   /\ wk_weekly[g].open = week[1].open
                   /\ wk_weekly[g].close = week[Len(week)].close
                   /\ \A j \in 1..Len(week) :
                          /\ week[j].high <= wk_weekly[g].high
                          /\ wk_weekly[g].low <= week[j].low
                   /\ \E j \in 1..Len(week) : week[j].high = wk_weekly[g].high
                   /\ \E j \in 1..Len(week) : week[j].low = wk_weekly[g].low
        /\ \A g \in 1..(Len(wk_weekly) - 1) :
               wk_weekly[g].date > wk_weekly[g + 1].date

====
